---- MODULE Spec2Model ----
(***************************************************************************)
(* Omni-Agent: policy/risk admission control, the payment boundary, the    *)
(* escrow-verify-release protocol and the task orchestration graph.        *)
(*                                                                         *)
(* Money is modelled in whole currency units (MNEE) on the payment side    *)
(* and in ten-thousandths of a unit on the escrow side, so that the 1%    *)
(* fee of every amount is an exact integer.  Time is modelled on a grid of half hours: two calls  *)
(* in the same instant are within one minute of each other, calls one      *)
(* instant apart are not, and calls two instants apart are an hour apart.  *)
(***************************************************************************)
EXTENDS Integers, Sequences, FiniteSets, TLC

\* ------------------------------------------------------------------------
\* Bounds of the model
\* ------------------------------------------------------------------------
MaxCalls == 4
MaxParCalls == 3
MaxClock == 1
MaxQuantity == 5

\* ------------------------------------------------------------------------
\* Configuration (config/agents.yaml, config/services.yaml shapes)
\* ------------------------------------------------------------------------
Workers == {"w1", "w2"}

\* the one worker of a strictly sequential run
SeqWorker == "w1"

AgentIds == {"a1"}

ServiceIds == {"s1"}

\* AgentConfig (priority, dailyBudget, maxPerCall) as loaded by load_configs
DefaultAgents ==
  [a \in AgentIds |-> [priority |-> "LOW", dailyBudget |-> 6, maxPerCall |-> 4]]

\* ServiceConfig (unitPrice, active, allowedAgents, blockedAgents)
DefaultServices ==
  [s \in ServiceIds |-> [unitPrice |-> 1, active |-> TRUE,
                         allowedAgents |-> {}, blockedAgents |-> {}]]

\* Window lengths on the half-hour grid: timestamp > now - 1 minute holds
\* exactly for the entries of the current instant.
MinuteWindow == 1
HourWindow == 2

BurstCalls == 5
BurstCost == 10
FirstCallLimit == 3
FirstLargeCost == 5
ProviderFailureLimit == 3
LargeCallCost == 20
CostPerCall == 1

VARIABLES
  agents,              \* PolicyEngine.agents
  services,            \* PolicyEngine.services
  currentDailySpend,   \* AgentConfig.currentDailySpend, per agent
  daily_spending,      \* PaymentClient.daily_spending[(agent, today)]
  call_history,        \* RiskEngine.call_history
  provider_failure_counts, \* RiskEngine.provider_failure_counts
  now,                 \* the wall clock
  pc,                  \* per worker: position inside PaidToolWrapper.wrap
  call,                \* per worker: the call in progress
  decisions,           \* per worker: the last PolicyDecision of its call
  ncalls,              \* number of calls started
  lastEval,            \* arguments and result of the last direct evaluate call
  escrows,             \* EscrowManager.escrows, indexed by escrow id
  transfer_cache,      \* A2APaymentClient.transfer_cache: the executed transfers
  epc,                 \* per caller: position inside verify_and_release
  ecall,               \* per caller: arguments of its verify_and_release
  eret,                \* the last EscrowManager call that returned, and how
  stage,               \* the graph node the task is at
  plan,                \* GraphState.plan
  current_step_index,  \* GraphState.current_step_index
  steps,               \* GraphState.steps
  escrow_records,      \* GraphState.escrow_records, as escrow ids
  guardian_block,      \* GraphState.guardian_block
  early_exit,          \* GraphState.early_exit
  node_index           \* position of the running node's loop

payVars == <<agents, services, currentDailySpend, daily_spending, call_history,
             provider_failure_counts, now, pc, call, decisions, ncalls, lastEval>>

escrowVars == <<escrows, transfer_cache, epc, ecall, eret>>

taskVars == <<stage, plan, current_step_index, steps, escrow_records,
              guardian_block, early_exit, node_index>>

vars == <<payVars, escrowVars, taskVars>>

RECURSIVE SumCost(_)
SumCost(s) == IF s = <<>> THEN 0 ELSE Head(s).cost + SumCost(Tail(s))

\* a quotient rounded up instead of truncated
IntDiv_rounding_up(a, b) == IF a >= 0 THEN (a + b - 1) \div b ELSE -((-a) \div b)

\* Python int(a / b) for b > 0: truncation toward zero
IntDiv(a, b) == IF a >= 0 THEN a \div b ELSE -((-a) \div b)

\* ------------------------------------------------------------------------
\* RiskEngine
\* ------------------------------------------------------------------------
recent_calls(agent_id) ==
  SelectSeq(call_history,
            LAMBDA c : c.agent_id = agent_id /\ c.timestamp > now - MinuteWindow)

assess_risk(agent_id, service_id, estimated_cost, agent_priority) ==
  LET recent == recent_calls(agent_id)
      agent_total_calls ==
        Len(SelectSeq(call_history, LAMBDA c : c.agent_id = agent_id))
  IN  IF Len(recent) > BurstCalls /\ SumCost(recent) > BurstCost
        THEN "RISK_BLOCK"
      ELSE IF agent_priority = "LOW" /\ agent_total_calls < FirstCallLimit
              /\ estimated_cost > FirstLargeCost
        THEN "RISK_REVIEW"
      ELSE IF provider_failure_counts[service_id] > ProviderFailureLimit
        THEN "RISK_REVIEW"
      ELSE IF estimated_cost > LargeCallCost
        THEN "RISK_REVIEW"
      ELSE "RISK_OK"

record_call(agent_id, service_id, cost, success) ==
  /\ call_history' =
       SelectSeq(Append(call_history,
                        [agent_id |-> agent_id, service_id |-> service_id,
                         cost |-> cost, timestamp |-> now, success |-> success]),
                 LAMBDA c : c.timestamp > now - HourWindow)
  /\ provider_failure_counts' =
       IF success THEN provider_failure_counts
       ELSE [provider_failure_counts EXCEPT ![service_id] = @ + 1]

\* ------------------------------------------------------------------------
\* PolicyEngine.evaluate
\* ------------------------------------------------------------------------
Decision(action, qty, risk, rule) ==
  [action |-> action, approved_quantity |-> qty, risk_level |-> risk, rule |-> rule]

\* evaluate without the unconditional deny on RISK_BLOCK
evaluate_risk_not_blocking(agent_id, service_id, estimated_cost, quantity) ==
  IF agent_id \notin DOMAIN agents
    THEN Decision("DENY", 0, "RISK_OK", "agent")
  ELSE IF service_id \notin DOMAIN services
    THEN Decision("DENY", 0, "RISK_OK", "service")
  ELSE
    LET agent == agents[agent_id]
        service == services[service_id]
        risk_level == assess_risk(agent_id, service_id, estimated_cost, agent.priority)
        remaining_budget == agent.dailyBudget - currentDailySpend[agent_id]
    IN  IF ~service.active
          THEN Decision("DENY", 0, "RISK_OK", "inactive")
        ELSE IF service.blockedAgents # {} /\ agent_id \in service.blockedAgents
          THEN Decision("DENY", 0, "RISK_OK", "blocked")
        ELSE IF service.allowedAgents # {} /\ agent_id \notin service.allowedAgents
          THEN Decision("DENY", 0, "RISK_OK", "not_allowed")
        ELSE IF estimated_cost > agent.maxPerCall
          THEN LET max_quantity == IntDiv(agent.maxPerCall, service.unitPrice)
               IN  IF max_quantity > 0
                     THEN Decision("DOWNGRADE", max_quantity, risk_level, "maxPerCall")
                     ELSE Decision("DENY", 0, risk_level, "maxPerCall")
        ELSE IF estimated_cost > remaining_budget
          THEN LET max_quantity == IntDiv(remaining_budget, service.unitPrice)
               IN  IF max_quantity > 0
                     THEN Decision("DOWNGRADE", max_quantity, risk_level, "dailyBudget")
                     ELSE Decision("DENY", 0, risk_level, "dailyBudget")
        ELSE Decision("ALLOW", quantity, risk_level, "approved")

\* evaluate with the daily budget looked at before the per-call ceiling
evaluate_budget_first(agent_id, service_id, estimated_cost, quantity) ==
  IF agent_id \notin DOMAIN agents
    THEN Decision("DENY", 0, "RISK_OK", "agent")
  ELSE IF service_id \notin DOMAIN services
    THEN Decision("DENY", 0, "RISK_OK", "service")
  ELSE
    LET agent == agents[agent_id]
        service == services[service_id]
        risk_level == assess_risk(agent_id, service_id, estimated_cost, agent.priority)
        remaining_budget == agent.dailyBudget - currentDailySpend[agent_id]
    IN  IF ~service.active
          THEN Decision("DENY", 0, "RISK_OK", "inactive")
        ELSE IF service.blockedAgents # {} /\ agent_id \in service.blockedAgents
          THEN Decision("DENY", 0, "RISK_OK", "blocked")
        ELSE IF service.allowedAgents # {} /\ agent_id \notin service.allowedAgents
          THEN Decision("DENY", 0, "RISK_OK", "not_allowed")
        ELSE IF risk_level = "RISK_BLOCK"
          THEN Decision("DENY", 0, risk_level, "risk")
        ELSE IF estimated_cost > remaining_budget
          THEN LET max_quantity == IntDiv(remaining_budget, service.unitPrice)
               IN  IF max_quantity > 0
                     THEN Decision("DOWNGRADE", max_quantity, risk_level, "dailyBudget")
                     ELSE Decision("DENY", 0, risk_level, "dailyBudget")
        ELSE IF estimated_cost > agent.maxPerCall
          THEN LET max_quantity == IntDiv(agent.maxPerCall, service.unitPrice)
               IN  IF max_quantity > 0
                     THEN Decision("DOWNGRADE", max_quantity, risk_level, "maxPerCall")
                     ELSE Decision("DENY", 0, risk_level, "maxPerCall")
        ELSE Decision("ALLOW", quantity, risk_level, "approved")

evaluate(agent_id, service_id, estimated_cost, quantity) ==
  IF agent_id \notin DOMAIN agents
    THEN Decision("DENY", 0, "RISK_OK", "agent")
  ELSE IF service_id \notin DOMAIN services
    THEN Decision("DENY", 0, "RISK_OK", "service")
  ELSE
    LET agent == agents[agent_id]
        service == services[service_id]
        risk_level == assess_risk(agent_id, service_id, estimated_cost, agent.priority)
        remaining_budget == agent.dailyBudget - currentDailySpend[agent_id]
    IN  IF ~service.active
          THEN Decision("DENY", 0, "RISK_OK", "inactive")
        ELSE IF service.blockedAgents # {} /\ agent_id \in service.blockedAgents
          THEN Decision("DENY", 0, "RISK_OK", "blocked")
        ELSE IF service.allowedAgents # {} /\ agent_id \notin service.allowedAgents
          THEN Decision("DENY", 0, "RISK_OK", "not_allowed")
        ELSE IF risk_level = "RISK_BLOCK"
          THEN Decision("DENY", 0, risk_level, "risk")
        ELSE IF estimated_cost > agent.maxPerCall
          THEN LET max_quantity == IntDiv(agent.maxPerCall, service.unitPrice)
               IN  IF max_quantity > 0
                     THEN Decision("DOWNGRADE", max_quantity, risk_level, "maxPerCall")
                     ELSE Decision("DENY", 0, risk_level, "maxPerCall")
        ELSE IF estimated_cost > remaining_budget
          THEN LET max_quantity == IntDiv(remaining_budget, service.unitPrice)
               IN  IF max_quantity > 0
                     THEN Decision("DOWNGRADE", max_quantity, risk_level, "dailyBudget")
                     ELSE Decision("DENY", 0, risk_level, "dailyBudget")
        ELSE Decision("ALLOW", quantity, risk_level, "approved")

\* PolicyEngine.record_call_result
record_call_result(agent_id, service_id, cost, success) ==
  /\ record_call(agent_id, service_id, cost, success)
  /\ currentDailySpend' =
       IF success /\ agent_id \in DOMAIN agents
         THEN [currentDailySpend EXCEPT ![agent_id] = @ + cost]
         ELSE currentDailySpend

\* ------------------------------------------------------------------------
\* EscrowManager (amounts in ten-thousandths of a currency unit)
\* ------------------------------------------------------------------------
MaxEscrows == 1
MaxTransfers == 3

Procs == {"p1", "p2"}

\* outcomes of A2APaymentClient.execute_a2a_payment: a result with
\* success True and a tx_hash, or a result with success False; the client
\* catches every exception itself
A2AOutcomes == {"ok", "fail"}

EscrowHolding == "escrow-contract"

FeePercent == 1

\* amount * 0.01
PlatformFee(amount) == (amount * FeePercent) \div 100

NewEscrow(task_id, customer_agent, merchant_agent, amount, requirement_hash) ==
  [task_id |-> task_id, customer_agent |-> customer_agent,
   merchant_agent |-> merchant_agent, amount |-> amount,
   fee |-> PlatformFee(amount), status |-> "created",
   requirement_hash |-> requirement_hash, work_ipfs_cid |-> "none",
   submitted_at |-> FALSE, verified_at |-> FALSE, released_at |-> FALSE,
   verification_score |-> 0, verification_passed |-> FALSE,
   lock_tx_hash |-> "none", release_tx_hash |-> "none",
   dispute_reason |-> "none", dispute_resolution |-> "none"]

Transfer(from_agent, to_agent, amount) ==
  [from_agent |-> from_agent, to_agent |-> to_agent, amount |-> amount]

\* the transfer cache after one execute_a2a_payment call
a2a_executed(cache, outcome, from_agent, to_agent, amount) ==
  IF outcome = "ok" THEN Append(cache, Transfer(from_agent, to_agent, amount))
                    ELSE cache

\* result.get("tx_hash")
tx_hash_of(outcome) == IF outcome = "ok" THEN "tx" ELSE "none"

\* create_escrow: the record stored for a lock attempt with the given outcome
locked_escrow(esc, outcome) ==
  IF outcome = "raise" THEN [esc EXCEPT !.status = "failed"]
  ELSE [esc EXCEPT !.lock_tx_hash = tx_hash_of(outcome)]

\* submit_work
submit_legal(esc) == esc.status = "created"

submitted_escrow(esc, evidence) ==
  [esc EXCEPT !.status = "submitted", !.submitted_at = TRUE,
              !.work_ipfs_cid = IF evidence = "cid" THEN "cid"
                                ELSE IF evidence = "data" THEN "sha256"
                                ELSE @]

\* verify_and_release without its status check
verify_legal_any_status(esc) == esc.status \in {"submitted", "verifying", "released", "refunded"}

\* verify_and_release
verify_legal(esc) == esc.status \in {"submitted", "verifying"}

verifying_escrow(esc, score, passed) ==
  [esc EXCEPT !.status = "verifying", !.verification_score = score,
              !.verification_passed = passed, !.verified_at = TRUE]

settled_escrow(esc, passed) ==
  IF passed THEN [esc EXCEPT !.status = "released", !.released_at = TRUE]
            ELSE [esc EXCEPT !.status = "refunded"]

settlement_to(esc, passed) ==
  IF passed THEN esc.merchant_agent ELSE esc.customer_agent

\* a payout that forgets the platform fee
settlement_amount_no_fee(esc, passed) == esc.amount

settlement_amount(esc, passed) ==
  IF passed THEN esc.amount - esc.fee ELSE esc.amount

hashed_escrow(esc, outcome) ==
  IF outcome = "raise" THEN esc
  ELSE [esc EXCEPT !.release_tx_hash = tx_hash_of(outcome)]

\* raise_dispute
disputed_escrow(esc, reason) ==
  [esc EXCEPT !.status = "disputed", !.dispute_reason = reason]

\* resolve_dispute also accepting an escrow nobody disputed
resolve_legal_undisputed(esc) == esc.status \in {"disputed", "created", "submitted"}

\* resolve_dispute
resolve_legal(esc) == esc.status = "disputed"

resolved_escrow(esc, resolution, release_to_merchant) ==
  [esc EXCEPT !.dispute_resolution = resolution,
              !.status = IF release_to_merchant THEN "released" ELSE "refunded"]

NoECall == [escrow_id |-> 0, score |-> 0, passed |-> FALSE]

\* what a returned call reports: the operation, its escrow id, and "ok" or
\* the exception it raised
Returned(op, e, result) == [op |-> op, escrow_id |-> e, result |-> result]

InitEscrowVars ==
  /\ escrows = <<>>
  /\ transfer_cache = <<>>
  /\ epc = [p \in Procs |-> "idle"]
  /\ ecall = [p \in Procs |-> NoECall]
  /\ eret = Returned("none", 0, "none")

Known(e) == e \in DOMAIN escrows

AllEscrowIdle == \A p \in Procs : epc[p] = "idle"

CreateEscrow(p, task_id, customer_agent, merchant_agent, amount, requirement_hash, outcome) ==
  /\ epc[p] = "idle"
  /\ escrows' = Append(escrows,
                       locked_escrow(NewEscrow(task_id, customer_agent, merchant_agent,
                                               amount, requirement_hash), outcome))
  /\ transfer_cache' = a2a_executed(transfer_cache, outcome, customer_agent,
                                    EscrowHolding, amount)
  /\ eret' = Returned("create_escrow", Len(escrows) + 1, "ok")
  /\ UNCHANGED <<epc, ecall, payVars>>

SubmitWork(p, e, evidence) ==
  /\ epc[p] = "idle"
  /\ IF Known(e) /\ submit_legal(escrows[e])
       THEN /\ escrows' = [escrows EXCEPT ![e] = submitted_escrow(@, evidence)]
            /\ eret' = Returned("submit_work", e, "ok")
       ELSE /\ eret' = Returned("submit_work", e, "ValueError")
            /\ UNCHANGED escrows
  /\ UNCHANGED <<transfer_cache, epc, ecall, payVars>>

\* verify_and_release, lines 133-138: lookup and status check
VerifyCheck(p, e, score, passed) ==
  /\ epc[p] = "idle"
  /\ IF Known(e) /\ verify_legal(escrows[e])
       THEN /\ epc' = [epc EXCEPT ![p] = "vr_mark"]
            /\ ecall' = [ecall EXCEPT ![p] =
                           [escrow_id |-> e, score |-> score, passed |-> passed]]
            /\ UNCHANGED eret
       ELSE /\ eret' = Returned("verify_and_release", e, "ValueError")
            /\ UNCHANGED <<epc, ecall>>
  /\ UNCHANGED <<escrows, transfer_cache, payVars>>

\* verify_and_release, lines 140-143: status verifying, score, passed
VerifyMark(p) ==
  /\ epc[p] = "vr_mark"
  /\ escrows' = [escrows EXCEPT ![ecall[p].escrow_id] =
                   verifying_escrow(@, ecall[p].score, ecall[p].passed)]
  /\ epc' = [epc EXCEPT ![p] = "vr_settle"]
  /\ UNCHANGED <<transfer_cache, ecall, eret, payVars>>

\* verify_and_release, lines 145-148 and 167-169: the terminal status
VerifySettle(p) ==
  /\ epc[p] = "vr_settle"
  /\ escrows' = [escrows EXCEPT ![ecall[p].escrow_id] =
                   settled_escrow(@, ecall[p].passed)]
  /\ epc' = [epc EXCEPT ![p] = "vr_transfer"]
  /\ UNCHANGED <<transfer_cache, ecall, eret, payVars>>

\* verify_and_release, lines 150-163 and 171-182: payout or refund transfer
VerifyTransfer(p, outcome) ==
  /\ epc[p] = "vr_transfer"
  /\ LET esc == escrows[ecall[p].escrow_id]
     IN  /\ transfer_cache' =
              a2a_executed(transfer_cache, outcome, EscrowHolding,
                           settlement_to(esc, ecall[p].passed),
                           settlement_amount(esc, ecall[p].passed))
         /\ escrows' = [escrows EXCEPT ![ecall[p].escrow_id] =
                          hashed_escrow(@, outcome)]
  /\ epc' = [epc EXCEPT ![p] = "idle"]
  /\ ecall' = [ecall EXCEPT ![p] = NoECall]
  /\ eret' = Returned("verify_and_release", ecall[p].escrow_id, "ok")
  /\ UNCHANGED payVars

RaiseDispute(p, e, reason) ==
  /\ epc[p] = "idle"
  /\ IF Known(e)
       THEN /\ escrows' = [escrows EXCEPT ![e] = disputed_escrow(@, reason)]
            /\ eret' = Returned("raise_dispute", e, "ok")
       ELSE /\ eret' = Returned("raise_dispute", e, "ValueError")
            /\ UNCHANGED escrows
  /\ UNCHANGED <<transfer_cache, epc, ecall, payVars>>

ResolveDispute(p, e, resolution, release_to_merchant) ==
  /\ epc[p] = "idle"
  /\ IF Known(e) /\ resolve_legal(escrows[e])
       THEN /\ escrows' = [escrows EXCEPT ![e] =
                             resolved_escrow(@, resolution, release_to_merchant)]
            /\ eret' = Returned("resolve_dispute", e, "ok")
       ELSE /\ eret' = Returned("resolve_dispute", e, "ValueError")
            /\ UNCHANGED escrows
  /\ UNCHANGED <<transfer_cache, epc, ecall, payVars>>

\* GraphState as OmniAgentGraph.invoke builds it
InitTaskVars ==
  /\ stage = "planner"
  /\ plan = <<>>
  /\ current_step_index = 0
  /\ steps = <<>>
  /\ escrow_records = <<>>
  /\ guardian_block = FALSE
  /\ early_exit = FALSE
  /\ node_index = 1

\* ------------------------------------------------------------------------
\* PaidToolWrapper.wrap around PaymentClient.pay_for_service
\* ------------------------------------------------------------------------
NoCall == [agent_id |-> "none", service_id |-> "none", quantity |-> 0,
           estimated_cost |-> 0, result |-> "none"]

NoDecision == Decision("NONE", 0, "RISK_OK", "none")

NoEval == [agent_id |-> "none", service_id |-> "none", estimated_cost |-> 0,
           quantity |-> 0, decision |-> NoDecision]

InitPay ==
  /\ agents = DefaultAgents
  /\ services = DefaultServices
  /\ currentDailySpend = [a \in AgentIds |-> 0]
  /\ daily_spending = [a \in AgentIds |-> 0]
  /\ call_history = <<>>
  /\ provider_failure_counts = [s \in ServiceIds |-> 0]
  /\ now = 0
  /\ pc = [w \in Workers |-> "idle"]
  /\ call = [w \in Workers |-> NoCall]
  /\ decisions = [w \in Workers |-> NoDecision]
  /\ ncalls = 0
  /\ lastEval = NoEval
  /\ InitEscrowVars
  /\ InitTaskVars

\* pay_for_service steps 1-3: price lookup and policy check; a DENY returns
\* at once and the wrapper records the failed attempt.
PolicyCheck(w, agent_id, service_id, quantity) ==
  /\ pc[w] = "idle"
  /\ LET estimated_cost == IF service_id \in DOMAIN services
                             THEN services[service_id].unitPrice * quantity
                             ELSE 0
         decision == evaluate(agent_id, service_id, estimated_cost, quantity)
         q == IF decision.action = "DOWNGRADE" THEN decision.approved_quantity
                                                ELSE quantity
         cost == IF decision.action = "DOWNGRADE"
                   THEN services[service_id].unitPrice * q
                   ELSE estimated_cost
     IN  /\ decisions' = [decisions EXCEPT ![w] = decision]
         /\ ncalls' = ncalls + 1
         /\ IF decision.action = "DENY"
              THEN /\ call' = [call EXCEPT ![w] =
                        [agent_id |-> agent_id, service_id |-> service_id,
                         quantity |-> quantity, estimated_cost |-> estimated_cost,
                         result |-> "Policy Rejected"]]
                   /\ record_call_result(agent_id, service_id, CostPerCall, FALSE)
                   /\ pc' = pc
              ELSE /\ call' = [call EXCEPT ![w] =
                        [agent_id |-> agent_id, service_id |-> service_id,
                         quantity |-> q, estimated_cost |-> cost,
                         result |-> "pending"]]
                   /\ pc' = [pc EXCEPT ![w] = "quote"]
                   /\ UNCHANGED <<call_history, provider_failure_counts,
                                  currentDailySpend>>
  /\ UNCHANGED <<agents, services, daily_spending, now, lastEval, escrowVars, taskVars>>

\* a quote step whose rejection returns without recording the attempt
Quote_unrecorded_rejection(w, can_pay) ==
  /\ pc[w] = "quote"
  /\ IF can_pay
       THEN /\ pc' = [pc EXCEPT ![w] = "pay"]
            /\ UNCHANGED call
       ELSE /\ pc' = [pc EXCEPT ![w] = "idle"]
            /\ call' = [call EXCEPT ![w].result = "Payment Failed"]
  /\ UNCHANGED <<agents, services, daily_spending, now, decisions, ncalls, lastEval,
                 call_history, provider_failure_counts, currentDailySpend,
                 escrowVars, taskVars>>

\* pay_for_service step 4: POST /guardian/quote
Quote(w, can_pay) ==
  /\ pc[w] = "quote"
  /\ IF can_pay
       THEN /\ pc' = [pc EXCEPT ![w] = "pay"]
            /\ UNCHANGED <<call, call_history, provider_failure_counts,
                           currentDailySpend>>
       ELSE /\ pc' = [pc EXCEPT ![w] = "idle"]
            /\ call' = [call EXCEPT ![w].result = "Payment Failed"]
            /\ record_call_result(call[w].agent_id, call[w].service_id,
                                  CostPerCall, FALSE)
  /\ UNCHANGED <<agents, services, daily_spending, now, decisions, ncalls, lastEval,
                 escrowVars, taskVars>>

\* PaymentClient.record_usage
record_usage(agent_id, amount) ==
  /\ daily_spending' = [daily_spending EXCEPT ![agent_id] = @ + amount]
  /\ currentDailySpend' = IF agent_id \in DOMAIN agents
                            THEN [currentDailySpend EXCEPT ![agent_id] = @ + amount]
                            ELSE currentDailySpend

\* a pay step that goes on to the provider call whatever /guardian/pay answered
Pay_calling_tool_unpaid(w, success) ==
  /\ pc[w] = "pay"
  /\ pc' = [pc EXCEPT ![w] = "tool"]
  /\ IF success
       THEN record_usage(call[w].agent_id, call[w].estimated_cost)
       ELSE UNCHANGED <<daily_spending, currentDailySpend>>
  /\ UNCHANGED <<call, call_history, provider_failure_counts>>
  /\ UNCHANGED <<agents, services, now, decisions, ncalls, lastEval, escrowVars, taskVars>>

\* a pay step that records the usage whatever /guardian/pay answered
Pay_recording_unpaid_usage(w, success) ==
  /\ pc[w] = "pay"
  /\ record_usage(call[w].agent_id, call[w].estimated_cost)
  /\ IF success
       THEN /\ pc' = [pc EXCEPT ![w] = "tool"]
            /\ UNCHANGED <<call, call_history, provider_failure_counts>>
       ELSE /\ pc' = [pc EXCEPT ![w] = "idle"]
            /\ call' = [call EXCEPT ![w].result = "Payment Failed"]
            /\ record_call(call[w].agent_id, call[w].service_id, CostPerCall, FALSE)
  /\ UNCHANGED <<agents, services, now, decisions, ncalls, lastEval, escrowVars, taskVars>>

\* pay_for_service steps 5-6: POST /guardian/pay, then usage recording
Pay(w, success) ==
  /\ pc[w] = "pay"
  /\ IF success
       THEN /\ pc' = [pc EXCEPT ![w] = "tool"]
            /\ record_usage(call[w].agent_id, call[w].estimated_cost)
            /\ UNCHANGED <<call, call_history, provider_failure_counts>>
       ELSE /\ pc' = [pc EXCEPT ![w] = "idle"]
            /\ call' = [call EXCEPT ![w].result = "Payment Failed"]
            /\ record_call_result(call[w].agent_id, call[w].service_id,
                                  CostPerCall, FALSE)
            /\ UNCHANGED daily_spending
  /\ UNCHANGED <<agents, services, now, decisions, ncalls, lastEval, escrowVars, taskVars>>

\* wrapper step 3: the provider call, then record_call_result
Tool(w, raised) ==
  /\ pc[w] = "tool"
  /\ pc' = [pc EXCEPT ![w] = "idle"]
  /\ call' = [call EXCEPT ![w].result =
                IF raised THEN "Tool Execution Failed" ELSE "ok"]
  /\ record_call_result(call[w].agent_id, call[w].service_id,
                        call[w].estimated_cost, ~raised)
  /\ UNCHANGED <<agents, services, daily_spending, now, decisions, ncalls, lastEval,
                 escrowVars, taskVars>>

\* datetime.now() advances
Tick ==
  /\ now < MaxClock
  /\ now' = now + 1
  /\ UNCHANGED <<agents, services, currentDailySpend, daily_spending, call_history,
                 provider_failure_counts, pc, call, decisions, ncalls, lastEval, escrowVars, taskVars>>

AllIdle == \A w \in Workers : pc[w] = "idle"

\* Concurrent charge attempts: workers interleave at the HTTP calls
StartPar ==
  \E w \in Workers, a \in AgentIds, s \in ServiceIds, q \in 1..MaxQuantity :
    /\ ncalls < MaxParCalls
    /\ PolicyCheck(w, a, s, q)

\* Charge attempts strictly one at a time
StartSeq ==
  \E a \in AgentIds, s \in ServiceIds, q \in 1..MaxQuantity :
    /\ ncalls < MaxCalls
    /\ AllIdle
    /\ PolicyCheck(SeqWorker, a, s, q)

QuoteStep == \E w \in Workers, b \in BOOLEAN : Quote(w, b)
PayStep == \E w \in Workers, b \in BOOLEAN : Pay(w, b)
ToolStep == \E w \in Workers, b \in BOOLEAN : Tool(w, b)

NextPar == StartPar \/ QuoteStep \/ PayStep \/ ToolStep \/ Tick
NextSeq == StartSeq \/ QuoteStep \/ PayStep \/ ToolStep \/ Tick

SpecPar == InitPay /\ [][NextPar]_vars
SpecSeq == InitPay /\ [][NextSeq]_vars

\* ------------------------------------------------------------------------
\* PolicyEngine.evaluate as a function of the engine's state: the state is
\* drawn from bounded sets and evaluate is applied to drawn arguments.
\* ------------------------------------------------------------------------
MaxHist == 6
MaxOldHist == 1
MaxHistCost == 2
MaxSpend == 3
MaxEvalCost == 6

BudgetChoices == {2, 6}

PerCallChoices == {1, 4}

\* n recorded calls of one agent, each of cost c, at instant t
History(agent_id, n, c, t) ==
  [i \in 1..n |-> [agent_id |-> agent_id, service_id |-> "s1", cost |-> c,
                   timestamp |-> t, success |-> TRUE]]

InitEval ==
  /\ \E b \in BudgetChoices, m \in PerCallChoices, pr \in {"LOW", "HIGH"} :
       agents = [a \in AgentIds |->
                   [priority |-> pr, dailyBudget |-> b, maxPerCall |-> m]]
  /\ services = DefaultServices
  /\ currentDailySpend \in [AgentIds -> 0..MaxSpend]
  /\ daily_spending = currentDailySpend
  /\ now = 1
  /\ \E n0 \in 0..MaxOldHist, n1 \in 0..MaxHist, c \in 1..MaxHistCost :
       call_history = History("a1", n0, c, 0) \o History("a1", n1, c, 1)
  /\ provider_failure_counts \in [ServiceIds -> {0, ProviderFailureLimit + 1}]
  /\ pc = [w \in Workers |-> "idle"]
  /\ call = [w \in Workers |-> NoCall]
  /\ decisions = [w \in Workers |-> NoDecision]
  /\ ncalls = 0
  /\ lastEval = NoEval
  /\ InitEscrowVars
  /\ InitTaskVars

EvaluateCall(agent_id, service_id, estimated_cost, quantity) ==
  /\ lastEval' = [agent_id |-> agent_id, service_id |-> service_id,
                  estimated_cost |-> estimated_cost, quantity |-> quantity,
                  decision |-> evaluate(agent_id, service_id, estimated_cost, quantity)]
  /\ UNCHANGED <<agents, services, currentDailySpend, daily_spending, call_history,
                 provider_failure_counts, now, pc, call, decisions, ncalls, escrowVars, taskVars>>

NextEval ==
  \E a \in AgentIds, s \in ServiceIds, c \in 0..MaxEvalCost, q \in 1..MaxQuantity :
    EvaluateCall(a, s, c, q)

SpecEval == InitEval /\ [][NextEval]_vars

\* ------------------------------------------------------------------------
\* PolicyEngine.evaluate over the configurations its early checks look at:
\* inactive services, allow and block lists, unknown agents and services,
\* with and without a burst on record; evaluate is applied once to each
\* drawn configuration
\* ------------------------------------------------------------------------
UnknownAgent == "ghost-agent"

UnknownService == "ghost-service"

\* allowedAgents / blockedAgents of a ServiceConfig: absent, or a list
AgentLists == {{}, {"a1"}, {"a2"}}

InitOrder ==
  /\ \E b \in BudgetChoices, m \in PerCallChoices :
       agents = [a \in AgentIds |->
                   [priority |-> "HIGH", dailyBudget |-> b, maxPerCall |-> m]]
  /\ \E active \in BOOLEAN, allowed \in AgentLists, blocked \in AgentLists,
        unitPrice \in {1, 2} :
       services = [s \in ServiceIds |->
                     [unitPrice |-> unitPrice, active |-> active,
                      allowedAgents |-> allowed, blockedAgents |-> blocked]]
  /\ currentDailySpend \in [AgentIds -> 0..MaxSpend]
  /\ daily_spending = currentDailySpend
  /\ now = 1
  /\ \E n1 \in {0, MaxHist} : call_history = History("a1", n1, MaxHistCost, 1)
  /\ provider_failure_counts = [s \in ServiceIds |-> 0]
  /\ pc = [w \in Workers |-> "idle"]
  /\ call = [w \in Workers |-> NoCall]
  /\ decisions = [w \in Workers |-> NoDecision]
  /\ ncalls = 0
  /\ lastEval = NoEval
  /\ InitEscrowVars
  /\ InitTaskVars

NextOrder ==
  \E a \in AgentIds \cup {UnknownAgent}, s \in ServiceIds \cup {UnknownService},
     c \in 0..MaxEvalCost, q \in 1..MaxQuantity :
    /\ lastEval = NoEval
    /\ EvaluateCall(a, s, c, q)

SpecOrder == InitOrder /\ [][NextOrder]_vars

\* ------------------------------------------------------------------------
\* PaymentClient.build_service_call_hash.  Strings are sequences of
\* characters; a payload dict is the sequence of its items in insertion
\* order, with distinct keys.  The model keeps the string that is hashed:
\* SHA-256 gives equal digests for equal strings and is taken to give
\* different digests for different ones.
\* ------------------------------------------------------------------------
IdStrings == {<<"a">>, <<"a", "|", "a">>}

PayloadDicts ==
  {<<>>, <<[key |-> "a", value |-> "1"]>>, <<[key |-> "b", value |-> "1"]>>,
   <<[key |-> "a", value |-> "1"], [key |-> "b", value |-> "2"]>>,
   <<[key |-> "b", value |-> "2"], [key |-> "a", value |-> "1"]>>}

\* json.dumps(payload_dict, sort_keys=True, separators=(',', ':'))
canonical_payload(payload_dict) ==
  LET value(k) == (CHOOSE i \in DOMAIN payload_dict : payload_dict[i].key = k)
      keys == SelectSeq(<<"a", "b">>,
                        LAMBDA k : \E i \in DOMAIN payload_dict : payload_dict[i].key = k)
      items[n \in 0..Len(keys)] ==
        IF n = 0 THEN <<>>
        ELSE items[n - 1] \o (IF n > 1 THEN <<",">> ELSE <<>>)
               \o <<"\"", keys[n], "\"", ":", payload_dict[value(keys[n])].value>>
  IN  <<"{">> \o items[Len(keys)] \o <<"}">>

\* f"{service_id}|{agent_id}|{task_id}|{canonical_payload}"
hash_input(service_id, agent_id, task_id, payload_dict) ==
  service_id \o <<"|">> \o agent_id \o <<"|">> \o task_id \o <<"|">>
    \o canonical_payload(payload_dict)

\* one caller computes the hash of its call
BuildServiceCallHash(w, service_id, agent_id, task_id, payload_dict) ==
  /\ call[w] = NoCall
  /\ call' = [call EXCEPT ![w] =
                [service_id |-> service_id, agent_id |-> agent_id, task_id |-> task_id,
                 payload_dict |-> payload_dict,
                 service_call_hash |->
                   hash_input(service_id, agent_id, task_id, payload_dict)]]
  /\ UNCHANGED <<agents, services, currentDailySpend, daily_spending, call_history,
                 provider_failure_counts, now, pc, decisions, ncalls, lastEval,
                 escrowVars, taskVars>>

NextHash ==
  \E w \in Workers, service_id \in IdStrings, agent_id \in IdStrings,
     task_id \in IdStrings, payload_dict \in PayloadDicts :
    BuildServiceCallHash(w, service_id, agent_id, task_id, payload_dict)

SpecHash == InitPay /\ [][NextHash]_vars

\* ------------------------------------------------------------------------
\* RiskEngine.record_call by the statements of its body, for calls made by
\* tasks that run in parallel on the one engine the API shares (the /chat
\* handler is a plain def, run on the server's thread pool).  No statement
\* of record_call holds a lock; a thread may be suspended between the
\* statements, inside the list comprehension, and inside "+= 1".
\* call[w] holds the locals of the call worker w is in.
\* ------------------------------------------------------------------------
\* self.call_history.append({...})
RecordAppend(w, service_id, success) ==
  /\ pc[w] = "idle"
  /\ call[w] = NoCall
  /\ ncalls' = ncalls + 1
  /\ call_history' = Append(call_history,
                            [agent_id |-> "a1", service_id |-> service_id,
                             cost |-> CostPerCall, timestamp |-> now,
                             success |-> success])
  /\ call' = [call EXCEPT ![w] = [service_id |-> service_id, success |-> success,
                                  kept |-> <<>>, count |-> 0]]
  /\ pc' = [pc EXCEPT ![w] = "filter"]
  /\ UNCHANGED <<agents, services, currentDailySpend, daily_spending,
                 provider_failure_counts, now, decisions, lastEval,
                 escrowVars, taskVars>>

\* [c for c in self.call_history if c['timestamp'] > hour_ago]: the new list
RecordFilter(w) ==
  /\ pc[w] = "filter"
  /\ call' = [call EXCEPT ![w].kept =
                SelectSeq(call_history, LAMBDA c : c.timestamp > now - HourWindow)]
  /\ pc' = [pc EXCEPT ![w] = "store"]
  /\ UNCHANGED <<agents, services, currentDailySpend, daily_spending, call_history,
                 provider_failure_counts, now, decisions, ncalls, lastEval,
                 escrowVars, taskVars>>

\* self.call_history = <the new list>
RecordStore(w) ==
  /\ pc[w] = "store"
  /\ call_history' = call[w].kept
  /\ pc' = [pc EXCEPT ![w] = IF call[w].success THEN "idle" ELSE "load"]
  /\ UNCHANGED <<agents, services, currentDailySpend, daily_spending,
                 provider_failure_counts, now, call, decisions, ncalls, lastEval,
                 escrowVars, taskVars>>

\* self.provider_failure_counts[service_id] += 1: the read
RecordLoad(w) ==
  /\ pc[w] = "load"
  /\ call' = [call EXCEPT ![w].count = provider_failure_counts[call[w].service_id]]
  /\ pc' = [pc EXCEPT ![w] = "incr"]
  /\ UNCHANGED <<agents, services, currentDailySpend, daily_spending, call_history,
                 provider_failure_counts, now, decisions, ncalls, lastEval,
                 escrowVars, taskVars>>

\* self.provider_failure_counts[service_id] += 1: the write
RecordIncr(w) ==
  /\ pc[w] = "incr"
  /\ provider_failure_counts' =
       [provider_failure_counts EXCEPT ![call[w].service_id] = call[w].count + 1]
  /\ pc' = [pc EXCEPT ![w] = "idle"]
  /\ UNCHANGED <<agents, services, currentDailySpend, daily_spending, call_history,
                 now, call, decisions, ncalls, lastEval, escrowVars, taskVars>>

NextRecord ==
  \/ \E w \in Workers, s \in ServiceIds, success \in BOOLEAN : RecordAppend(w, s, success)
  \/ \E w \in Workers : RecordFilter(w)
  \/ \E w \in Workers : RecordStore(w)
  \/ \E w \in Workers : RecordLoad(w)
  \/ \E w \in Workers : RecordIncr(w)

SpecRecord == InitPay /\ [][NextRecord]_vars

\* ------------------------------------------------------------------------
\* The Guardian service (the signer) and the client's two calls to it,
\* from the quantity the policy step of pay_for_service left.  evaluate has
\* no check on the quantity itself, only on its cost.
\* call[w] holds the quantity of the call, the max_quantity of its quote and
\* the quantity the signer paid for.
\* ------------------------------------------------------------------------
MaxQuantityPerCall == 1000

\* evaluate_payment_request; the balance is "funded", "empty", or "unknown"
\* when reading it raised
evaluate_payment_request(quantity, treasury_balance) ==
  IF quantity <= 0
    THEN [can_pay |-> FALSE, max_quantity |-> 0]
  ELSE IF treasury_balance = "empty"
    THEN [can_pay |-> FALSE, max_quantity |-> 0]
  ELSE IF quantity > MaxQuantityPerCall
    THEN [can_pay |-> TRUE, max_quantity |-> MaxQuantityPerCall]
  ELSE [can_pay |-> TRUE, max_quantity |-> quantity]

\* pay_for_service arrives at step 4 with its quantity
SignerStart(w, quantity) ==
  /\ pc[w] = "idle"
  /\ call[w] = NoCall
  /\ ncalls' = ncalls + 1
  /\ call' = [call EXCEPT ![w] = [quantity |-> quantity, max_quantity |-> 0,
                                  paid_quantity |-> 0, result |-> "pending"]]
  /\ pc' = [pc EXCEPT ![w] = "quote"]
  /\ UNCHANGED <<agents, services, currentDailySpend, daily_spending, call_history,
                 provider_failure_counts, now, decisions, lastEval,
                 escrowVars, taskVars>>

\* pay_for_service step 4 and POST /guardian/quote: the client goes on when
\* the answer is 200 with can_pay, whatever its max_quantity
GuardianQuote(w, treasury_balance, reachable) ==
  /\ pc[w] = "quote"
  /\ LET quote == evaluate_payment_request(call[w].quantity, treasury_balance)
     IN  IF reachable /\ quote.can_pay
           THEN /\ call' = [call EXCEPT ![w].max_quantity = quote.max_quantity]
                /\ pc' = [pc EXCEPT ![w] = "pay"]
           ELSE /\ call' = [call EXCEPT ![w].result = "Payment Failed",
                                        ![w].max_quantity =
                                          IF reachable THEN quote.max_quantity ELSE 0]
                /\ pc' = [pc EXCEPT ![w] = "idle"]
  /\ UNCHANGED <<agents, services, currentDailySpend, daily_spending, call_history,
                 provider_failure_counts, now, decisions, ncalls, lastEval,
                 escrowVars, taskVars>>

\* pay_for_service step 5 and POST /guardian/pay: the request carries the
\* client's quantity; guardian_pay refuses a quantity <= 0 and otherwise
\* pays through the SDK, which may raise
GuardianPay(w, sdk_ok) ==
  /\ pc[w] = "pay"
  /\ IF call[w].quantity > 0 /\ sdk_ok
       THEN call' = [call EXCEPT ![w].paid_quantity = call[w].quantity,
                                 ![w].result = "paid"]
       ELSE call' = [call EXCEPT ![w].result = "Payment Failed"]
  /\ pc' = [pc EXCEPT ![w] = "idle"]
  /\ UNCHANGED <<agents, services, currentDailySpend, daily_spending, call_history,
                 provider_failure_counts, now, decisions, ncalls, lastEval,
                 escrowVars, taskVars>>

NextSigner ==
  \/ \E w \in Workers, q \in {0, 1, MaxQuantityPerCall, MaxQuantityPerCall + 1} :
       SignerStart(w, q)
  \/ \E w \in Workers, b \in {"funded", "empty", "unknown"}, reachable \in BOOLEAN :
       GuardianQuote(w, b, reachable)
  \/ \E w \in Workers, sdk_ok \in BOOLEAN : GuardianPay(w, sdk_ok)

SpecSigner == InitPay /\ [][NextSigner]_vars

\* ------------------------------------------------------------------------
\* EscrowManager driven directly: its operations one call at a time, and
\* with two callers whose verify_and_release calls interleave
\* ------------------------------------------------------------------------
EscrowAmounts == {10000}

EscrowArgs == 1..(MaxEscrows + 1)

InitEscrow == InitPay

CreateCall(p) ==
  \E amount \in EscrowAmounts, outcome \in A2AOutcomes :
    /\ Len(escrows) < MaxEscrows
    /\ CreateEscrow(p, "t1", "user-agent", "startup-designer", amount, "none", outcome)
    /\ UNCHANGED taskVars

SubmitCall(p) ==
  \E e \in EscrowArgs, evidence \in {"cid", "data"} :
    SubmitWork(p, e, evidence) /\ UNCHANGED taskVars

InFlight == Cardinality({p \in Procs : epc[p] # "idle"})

VerifyCall(p) ==
  \E e \in EscrowArgs, passed \in BOOLEAN :
    /\ Len(transfer_cache) + InFlight < MaxTransfers
    /\ VerifyCheck(p, e, IF passed THEN 100 ELSE 0, passed)
    /\ UNCHANGED taskVars

DisputeCall(p) ==
  \E e \in EscrowArgs : RaiseDispute(p, e, "reason") /\ UNCHANGED taskVars

ResolveCall(p) ==
  \E e \in EscrowArgs, release_to_merchant \in BOOLEAN :
    ResolveDispute(p, e, "resolution", release_to_merchant) /\ UNCHANGED taskVars

VerifyMarkStep == \E p \in Procs : VerifyMark(p) /\ UNCHANGED taskVars
VerifySettleStep == \E p \in Procs : VerifySettle(p) /\ UNCHANGED taskVars
VerifyTransferStep ==
  \E p \in Procs, outcome \in A2AOutcomes : VerifyTransfer(p, outcome) /\ UNCHANGED taskVars

EscrowCreateSeq == AllEscrowIdle /\ CreateCall("p1")
EscrowSubmitSeq == AllEscrowIdle /\ SubmitCall("p1")
EscrowVerifySeq == AllEscrowIdle /\ VerifyCall("p1")
EscrowDisputeSeq == AllEscrowIdle /\ DisputeCall("p1")
EscrowResolveSeq == AllEscrowIdle /\ ResolveCall("p1")

NextEscrowSeq ==
  \/ EscrowCreateSeq
  \/ EscrowSubmitSeq
  \/ EscrowVerifySeq
  \/ EscrowDisputeSeq
  \/ EscrowResolveSeq
  \/ VerifyMarkStep
  \/ VerifySettleStep
  \/ VerifyTransferStep

SpecEscrowSeq == InitEscrow /\ [][NextEscrowSeq]_vars

EscrowCreatePar == \E p \in Procs : CreateCall(p)
EscrowSubmitPar == \E p \in Procs : SubmitCall(p)
EscrowVerifyPar == \E p \in Procs : VerifyCall(p)
EscrowDisputePar == \E p \in Procs : DisputeCall(p)
EscrowResolvePar == \E p \in Procs : ResolveCall(p)

NextEscrowPar ==
  \/ EscrowCreatePar
  \/ EscrowSubmitPar
  \/ EscrowVerifyPar
  \/ EscrowDisputePar
  \/ EscrowResolvePar
  \/ VerifyMarkStep
  \/ VerifySettleStep
  \/ VerifyTransferStep

SpecEscrowPar == InitEscrow /\ [][NextEscrowPar]_vars

\* ------------------------------------------------------------------------
\* The task graph of build_omni_agent_graph, one task:
\* planner -> guardian -> escrow_lock -> executor -> verifier ->
\* escrow_release -> feedback -> summarizer.  Each node is the node function
\* applied to the GraphState; what a node receives from outside (the LLM's
\* verdict, the tool registry and the tools' results, the transfer client's
\* answers) is an input of its action.
\* ------------------------------------------------------------------------
TaskId == "t1"

ActiveAgent == "user-agent"

PlanStep(step_id, description, agent_id, tool_name, max_mnee_cost) ==
  [step_id |-> step_id, description |-> description, agent_id |-> agent_id,
   tool_name |-> tool_name, max_mnee_cost |-> max_mnee_cost]

\* the steps of _keyword_plan (costs 1.0, 0.1, 3.0, 0.01 and 0.0)
Design == PlanStep("step_1_design", "Generate requested artwork",
                   "startup-designer", "image_gen", 10000)
Data == PlanStep("step_1_data", "Gather market pricing data",
                 "startup-analyst", "price_oracle", 1000)
Analyze == PlanStep("step_2_analyze", "Analyze data and generate report",
                    "startup-analyst", "batch_compute", 30000)
Archive == PlanStep("step_1_archive", "Archive the content",
                    "startup-archivist", "log_archive", 100)
Fallback == PlanStep("step_1_fallback", "Process user request",
                     "user-agent", "respond", 0)

\* the plans of _keyword_plan, and plans as the planner chain may return them
Plans == {<<Design>>, <<Data, Analyze>>, <<Archive>>, <<Fallback>>,
          <<>>, <<Fallback, Design>>, <<Design, Analyze>>}

\* tools _validate_tool_output knows by name
SpecificTools == {"image_gen", "price_oracle", "batch_compute", "log_archive"}

\* guardian: the parsed GuardianDecision, no LLM, a failing chain; "raise"
\* is an exception leaving the node, as the call of guardian_node without
\* its logger and policy_engine arguments in the graph's lambda
GuardianOutcomes ==
  [kind : {"decision"}, status : {"APPROVE", "BLOCK"}, risk_score : {0, 8}]
    \cup [kind : {"no_llm", "chain_error", "raise"}, status : {"none"}, risk_score : {0}]

BlockScore == 8

\* a guardian that blocks on the verdict only
guardian_blocks_on_verdict(g) == g.kind = "decision" /\ g.status = "BLOCK"

guardian_blocks(g) ==
  g.kind = "decision" /\ (g.status = "BLOCK" \/ g.risk_score >= BlockScore)

\* executor: what getattr and the call of the tool give.  A result dict is
\* known by what the nodes look at: its "error" entry ("Policy Rejected" or
\* another error), an "_error" entry, the entry its tool is validated by
\* ("valid"), none of these ("missing"), or no entry at all ("empty")
ToolOutcomes == {"not_found", "raise", "Policy Rejected", "error",
                 "valid", "missing", "_error", "empty"}

NoVerification == [passed |-> FALSE, score |-> -1, layer |-> "none"]

\* a delegation fee without its minimum
DelegationFee_without_minimum(max_mnee_cost) == max_mnee_cost \div 10

\* delegation_cost: 10% of the step's cost, at least 0.01
DelegationFee(max_mnee_cost) ==
  IF max_mnee_cost \div 10 < 100 THEN 100 ELSE max_mnee_cost \div 10

\* the StepRecord executor_node appends for a step
StepRecordOf(step, tool, a2a_payment) ==
  LET status == IF tool \in {"not_found", "raise", "error"} THEN "failed"
                ELSE IF tool = "Policy Rejected" THEN "denied"
                ELSE "success"
  IN  [step_id |-> step.step_id, agent_id |-> step.agent_id,
       tool_name |-> step.tool_name, status |-> status,
       output |-> IF tool \in {"not_found", "raise"} THEN "None" ELSE tool,
       error |-> IF status = "success" THEN "none" ELSE tool,
       a2a_payment |-> IF tool \in {"not_found", "raise"} THEN "none" ELSE a2a_payment,
       verification |-> NoVerification]

\* truth value of a step's output dict
OutputTruthy(rec) ==
  rec.verification # NoVerification \/ rec.output \notin {"None", "empty"}

\* ---- verifier.py (scores times 100) ----
VerificationResult(passed, score, layer) ==
  [passed |-> passed, score |-> score, layer |-> layer]

LocalThreshold == 70

EscalationFloor == 30

OutputEmpty(output) == output \in {"None", "empty"}

\* output.get("error")
HasErrorEntry(output) == output \in {"error", "Policy Rejected"}

validate_tool_output(tool_name, output) ==
  IF tool_name \in SpecificTools
    THEN IF output = "valid" THEN 90 ELSE 30
    ELSE IF ~OutputEmpty(output) /\ ~HasErrorEntry(output) THEN 80 ELSE 40

local_verify(tool_name, output) ==
  IF OutputEmpty(output) THEN VerificationResult(FALSE, 0, "local")
  ELSE IF HasErrorEntry(output) \/ output = "_error"
    THEN VerificationResult(FALSE, 10, "local")
  ELSE LET score == validate_tool_output(tool_name, output)
       IN  VerificationResult(score >= LocalThreshold, score, "local")

ai_network_verify(output) ==
  LET has_result == ~OutputEmpty(output) /\ ~HasErrorEntry(output)
      score == IF has_result THEN 85 ELSE 20
  IN  VerificationResult(score >= 70, score, "ai_network")

\* a funnel that escalates every output the local layer did not pass
hybrid_verify_escalating_all_failures(tool_name, output) ==
  LET result == local_verify(tool_name, output)
  IN  IF ~result.passed THEN ai_network_verify(output) ELSE result

hybrid_verify(tool_name, output) ==
  LET result == local_verify(tool_name, output)
  IN  IF ~result.passed /\ result.score >= EscalationFloor
        THEN ai_network_verify(output)
        ELSE result

\* ---- nodes ----
Planner ==
  /\ stage = "planner"
  /\ \E p \in Plans : plan' = p
  /\ current_step_index' = 0
  /\ stage' = "guardian"
  /\ UNCHANGED <<steps, escrow_records, guardian_block, early_exit, node_index,
                 payVars, escrowVars>>

\* guardian_node and after_guardian
Guardian(g) ==
  /\ stage = "guardian"
  /\ guardian_block' = guardian_blocks(g)
  /\ stage' = IF g.kind = "raise" THEN "failed"
              ELSE IF guardian_blocks(g) THEN "feedback"
              ELSE "escrow_lock"
  /\ node_index' = 1
  /\ UNCHANGED <<plan, current_step_index, steps, escrow_records, early_exit,
                 payVars, escrowVars>>

\* escrow_lock_node, one iteration of its loop over the plan
LockStep(outcome) ==
  /\ stage = "escrow_lock"
  /\ node_index <= Len(plan)
  /\ LET step == plan[node_index]
     IN  IF step.max_mnee_cost > 0
           THEN /\ CreateEscrow("p1", TaskId, ActiveAgent, step.agent_id,
                                step.max_mnee_cost, step.description, outcome)
                /\ escrow_records' = Append(escrow_records, Len(escrows) + 1)
           ELSE UNCHANGED <<escrow_records, escrowVars, payVars>>
  /\ node_index' = node_index + 1
  /\ UNCHANGED <<stage, plan, current_step_index, steps, guardian_block, early_exit>>

\* edge escrow_lock -> executor
LockDone ==
  /\ stage = "escrow_lock"
  /\ node_index > Len(plan)
  /\ stage' = "executor"
  /\ UNCHANGED <<plan, current_step_index, steps, escrow_records, guardian_block,
                 early_exit, node_index, payVars, escrowVars>>

\* an executor whose denied step sets early_exit and is followed by the
\* verifier and the settlement all the same
ExecuteStep_settling_after_denial(a2a, tool) ==
  /\ stage = "executor"
  /\ current_step_index < Len(plan)
  /\ LET step == plan[current_step_index + 1]
         delegated == step.agent_id # ActiveAgent
         record == StepRecordOf(step, tool, IF delegated THEN a2a ELSE "none")
     IN  /\ transfer_cache' =
              IF delegated
                THEN a2a_executed(transfer_cache, a2a, ActiveAgent, step.agent_id,
                                  DelegationFee(step.max_mnee_cost))
                ELSE transfer_cache
         /\ steps' = Append(steps, record)
         /\ IF record.status = "denied"
              THEN /\ early_exit' = TRUE
                   /\ stage' = "verifier"
                   /\ node_index' = 1
                   /\ UNCHANGED current_step_index
              ELSE /\ current_step_index' = current_step_index + 1
                   /\ UNCHANGED <<early_exit, stage, node_index>>
  /\ UNCHANGED <<plan, escrow_records, guardian_block, payVars,
                 escrows, epc, ecall, eret>>

\* an executor that records a denied step and goes on with the next one
ExecuteStep_past_denial(a2a, tool) ==
  /\ stage = "executor"
  /\ current_step_index < Len(plan)
  /\ LET step == plan[current_step_index + 1]
         delegated == step.agent_id # ActiveAgent
         record == StepRecordOf(step, tool, IF delegated THEN a2a ELSE "none")
     IN  /\ transfer_cache' =
              IF delegated
                THEN a2a_executed(transfer_cache, a2a, ActiveAgent, step.agent_id,
                                  DelegationFee(step.max_mnee_cost))
                ELSE transfer_cache
         /\ steps' = Append(steps, record)
         /\ current_step_index' = current_step_index + 1
  /\ UNCHANGED <<early_exit, stage, plan, escrow_records, guardian_block,
                 node_index, payVars, escrows, epc, ecall, eret>>

\* executor_node, one iteration of its loop: delegation fee, tool lookup,
\* tool call, StepRecord; a denied step returns with early_exit
ExecuteStep(a2a, tool) ==
  /\ stage = "executor"
  /\ current_step_index < Len(plan)
  /\ LET step == plan[current_step_index + 1]
         delegated == step.agent_id # ActiveAgent
         record == StepRecordOf(step, tool, IF delegated THEN a2a ELSE "none")
     IN  /\ transfer_cache' =
              IF delegated
                THEN a2a_executed(transfer_cache, a2a, ActiveAgent, step.agent_id,
                                  DelegationFee(step.max_mnee_cost))
                ELSE transfer_cache
         /\ steps' = Append(steps, record)
         /\ IF record.status = "denied"
              THEN /\ early_exit' = TRUE
                   /\ stage' = "feedback"
                   /\ UNCHANGED current_step_index
              ELSE /\ current_step_index' = current_step_index + 1
                   /\ UNCHANGED <<early_exit, stage>>
  /\ UNCHANGED <<plan, escrow_records, guardian_block, node_index, payVars,
                 escrows, epc, ecall, eret>>

\* executor_node line 33: the agent's policy entry has no project_id
ExecuteLookupRaises ==
  /\ stage = "executor"
  /\ current_step_index < Len(plan)
  /\ stage' = "failed"
  /\ UNCHANGED <<plan, current_step_index, steps, escrow_records, guardian_block,
                 early_exit, node_index, payVars, escrowVars>>

\* after_executor, once the loop is over
ExecuteDone ==
  /\ stage = "executor"
  /\ current_step_index >= Len(plan)
  /\ stage' = IF early_exit THEN "feedback" ELSE "verifier"
  /\ node_index' = 1
  /\ UNCHANGED <<plan, current_step_index, steps, escrow_records, guardian_block,
                 early_exit, payVars, escrowVars>>

\* a verifier that marks a step failed when its verification does not pass
verified_step_failing_unverified(rec) ==
  [rec EXCEPT !.verification = hybrid_verify(rec.tool_name, rec.output),
              !.output = IF @ = "None" THEN "empty" ELSE @,
              !.status = IF hybrid_verify(rec.tool_name, rec.output).passed
                           THEN @ ELSE "failed"]

\* the step verifier_node leaves: an output of None becomes a dict, and the
\* result is stored in it; the status is not touched
verified_step(rec) ==
  [rec EXCEPT !.verification =
                 hybrid_verify(rec.tool_name, rec.output),
              !.output = IF @ = "None" THEN "empty" ELSE @]

\* verifier_node, one iteration of its loop over the step records
VerifyStep ==
  /\ stage = "verifier"
  /\ node_index <= Len(steps)
  /\ steps' = IF steps[node_index].status = "denied"
                THEN steps
                ELSE [steps EXCEPT ![node_index] = verified_step(@)]
  /\ node_index' = node_index + 1
  /\ UNCHANGED <<stage, plan, current_step_index, escrow_records, guardian_block,
                 early_exit, payVars, escrowVars>>

\* edge verifier -> escrow_release
VerifyDone ==
  /\ stage = "verifier"
  /\ node_index > Len(steps)
  /\ stage' = "escrow_release"
  /\ node_index' = 1
  /\ UNCHANGED <<plan, current_step_index, steps, escrow_records, guardian_block,
                 early_exit, payVars, escrowVars>>

\* escrow_release_node: index of the first StepRecord of the merchant, 0 if none
MatchingStep(esc) ==
  IF \E i \in DOMAIN steps : steps[i].agent_id = esc.merchant_agent
    THEN CHOOSE i \in DOMAIN steps :
           /\ steps[i].agent_id = esc.merchant_agent
           /\ \A j \in 1..(i - 1) : steps[j].agent_id # esc.merchant_agent
    ELSE 0

\* a settlement that scores every outcome as ambiguous
settle_score_always_ambiguous(rec) == 50

\* escrow_release_node: the verification outcome it passes on
settle_score(rec) ==
  IF rec.status = "success" THEN 100 ELSE IF rec.status = "failed" THEN 0 ELSE 50

settle_passed(rec) == rec.status = "success"

\* escrow_release_node, one iteration of its loop over the escrow records:
\* submit_work when the step has an output, then verify_and_release; a
\* ValueError of either leaves the node
SettleStep(outcome) ==
  /\ stage = "escrow_release"
  /\ node_index <= Len(escrow_records)
  /\ LET e == escrow_records[node_index]
         esc == escrows[e]
         m == MatchingStep(esc)
     IN  IF esc.status \in {"released", "refunded"} \/ m = 0
           THEN /\ node_index' = node_index + 1
                /\ UNCHANGED <<stage, escrows, transfer_cache, eret>>
           ELSE LET rec == steps[m]
                    passed == settle_passed(rec)
                    submits == OutputTruthy(rec)
                    esc1 == IF submits /\ submit_legal(esc)
                              THEN submitted_escrow(esc, "data") ELSE esc
                IN  IF submits /\ ~submit_legal(esc)
                      THEN /\ stage' = "failed"
                           /\ eret' = Returned("submit_work", e, "ValueError")
                           /\ UNCHANGED <<node_index, escrows, transfer_cache>>
                    ELSE IF ~verify_legal(esc1)
                      THEN /\ stage' = "failed"
                           /\ eret' = Returned("verify_and_release", e, "ValueError")
                           /\ escrows' = [escrows EXCEPT ![e] = esc1]
                           /\ UNCHANGED <<node_index, transfer_cache>>
                    ELSE LET esc2 == settled_escrow(
                                       verifying_escrow(esc1, settle_score(rec), passed),
                                       passed)
                         IN  /\ escrows' = [escrows EXCEPT ![e] = hashed_escrow(esc2, outcome)]
                             /\ transfer_cache' =
                                  a2a_executed(transfer_cache, outcome, EscrowHolding,
                                               settlement_to(esc2, passed),
                                               settlement_amount(esc2, passed))
                             /\ eret' = Returned("verify_and_release", e, "ok")
                             /\ node_index' = node_index + 1
                             /\ UNCHANGED stage
  /\ UNCHANGED <<plan, current_step_index, steps, escrow_records, guardian_block,
                 early_exit, payVars, epc, ecall>>

\* edge escrow_release -> feedback
SettleDone ==
  /\ stage = "escrow_release"
  /\ node_index > Len(escrow_records)
  /\ stage' = "feedback"
  /\ UNCHANGED <<plan, current_step_index, steps, escrow_records, guardian_block,
                 early_exit, node_index, payVars, escrowVars>>

\* policy_feedback_node and the edge feedback -> summarizer
Feedback ==
  /\ stage = "feedback"
  /\ stage' = "summarizer"
  /\ UNCHANGED <<plan, current_step_index, steps, escrow_records, guardian_block,
                 early_exit, node_index, payVars, escrowVars>>

\* summarizer_node and the edge summarizer -> END
Summarizer ==
  /\ stage = "summarizer"
  /\ stage' = "done"
  /\ UNCHANGED <<plan, current_step_index, steps, escrow_records, guardian_block,
                 early_exit, node_index, payVars, escrowVars>>

GuardianStep == \E g \in GuardianOutcomes : Guardian(g)
LockStepAny == \E outcome \in A2AOutcomes : LockStep(outcome)
ExecuteStepAny == \E a2a \in A2AOutcomes, tool \in ToolOutcomes : ExecuteStep(a2a, tool)
SettleStepAny == \E outcome \in A2AOutcomes : SettleStep(outcome)

NextTask ==
  \/ Planner
  \/ GuardianStep
  \/ LockStepAny
  \/ LockDone
  \/ ExecuteStepAny
  \/ ExecuteLookupRaises
  \/ ExecuteDone
  \/ VerifyStep
  \/ VerifyDone
  \/ SettleStepAny
  \/ SettleDone
  \/ Feedback
  \/ Summarizer

SpecTask == InitPay /\ [][NextTask]_vars

\* POST /escrow/{escrow_id}/dispute for an escrow of the task, handled on
\* another thread while the task is between its lock stage and its end;
\* raise_dispute accepts an escrow in any status
DisputeDuringTask ==
  /\ stage \in {"executor", "verifier", "escrow_release", "feedback", "summarizer"}
  /\ \E e \in DOMAIN escrows : RaiseDispute("p1", e, "reason")
  /\ UNCHANGED taskVars

NextTaskApi == NextTask \/ DisputeDuringTask

SpecTaskApi == InitPay /\ [][NextTaskApi]_vars

\* ------------------------------------------------------------------------
\* Properties
\* ------------------------------------------------------------------------

\* C1: under any interleaving of concurrent PayForService attempts, the sum
\* of an agent's successful charges of the day never exceeds its dailyBudget.
C1_ChargesWithinDailyBudget ==
  \A a \in AgentIds : daily_spending[a] <= agents[a].dailyBudget

\* C2: with charge attempts run strictly one at a time, a call admitted as
\* DOWNGRADE is charged at most the agent's remaining daily budget, so the
\* recorded spend of the day never exceeds the dailyBudget.
C2_DowngradeWithinRemainingBudget ==
  \A w \in Workers :
    (pc[w] \in {"quote", "pay"} /\ decisions[w].action = "DOWNGRADE")
      => call[w].estimated_cost <=
           agents[call[w].agent_id].dailyBudget - currentDailySpend[call[w].agent_id]

\* C3: the daily-spend counter is increased by exactly the charged amount,
\* exactly once per successful paid call: once every call has returned, the
\* counter equals the sum of the successful charges.
C3_CounterEqualsSumOfCharges ==
  AllIdle => \A a \in AgentIds : currentDailySpend[a] = daily_spending[a]

Terminal(esc) == esc.status \in {"released", "refunded"}

\* C4: once an escrow is released or refunded, no later operation changes
\* its status or any other field of it (the operation that settled it may
\* still be recording its own transfer, so only steps taken while no call is
\* in progress are looked at).
C4_TerminalEscrowImmutable ==
  [][\A e \in DOMAIN escrows :
       (AllEscrowIdle /\ Terminal(escrows[e])) => escrows'[e] = escrows[e]]_vars

\* C5: verify_and_release called on an escrow that is already released or
\* refunded raises its state error, makes no transfer, leaves the record as
\* it was and does not go on to the settlement steps.
C5_TerminalVerifyRejected ==
  [][\A p \in Procs, e \in EscrowArgs, passed \in BOOLEAN :
       (/\ Known(e)
        /\ Terminal(escrows[e])
        /\ VerifyCheck(p, e, IF passed THEN 100 ELSE 0, passed))
         => /\ eret' = Returned("verify_and_release", e, "ValueError")
            /\ UNCHANGED <<escrows, transfer_cache, epc, ecall>>]_vars

\* a second verify_and_release on a settled escrow has just been rejected
C5_Witness ==
  /\ eret.op = "verify_and_release"
  /\ eret.result = "ValueError"
  /\ Known(eret.escrow_id)
  /\ Terminal(escrows[eret.escrow_id])
  /\ escrows[eret.escrow_id].release_tx_hash = "tx"
  /\ AllEscrowIdle

\* transfers made out of the escrow holding account
SettlementTransfers ==
  {i \in DOMAIN transfer_cache : transfer_cache[i].from_agent = EscrowHolding}

\* C6: concurrent settlement calls on one escrow behave as if run one after
\* the other: there is never more than one payout or refund transfer out of
\* escrow-holding per escrow.
C6_OneSettlementTransferPerEscrow ==
  Cardinality(SettlementTransfers) <= Len(escrows)

\* the settlement stage has dealt with the i-th escrow record of the task
Settled(i) ==
  \/ stage \in {"feedback", "summarizer", "done"} /\ ~early_exit /\ ~guardian_block
  \/ stage = "escrow_release" /\ node_index > i

\* C7: an escrow is released to the merchant only if the verification result
\* of its matched step passed, and is refunded when that result did not pass.
C7_ReleaseFollowsVerification ==
  \A i \in DOMAIN escrow_records :
    LET esc == escrows[escrow_records[i]]
        m == MatchingStep(esc)
    IN  (Settled(i) /\ m # 0)
          => /\ esc.status = "released" => steps[m].verification.passed
             /\ ~steps[m].verification.passed => esc.status = "refunded"

\* C8: an escrow whose lock transfer did not succeed is failed; no escrow is
\* in status created without a successful lock transfer.
C8_CreatedOnlyIfLocked ==
  \A e \in DOMAIN escrows :
    escrows[e].status = "created" => escrows[e].lock_tx_hash # "none"

\* the escrow record escrow_lock_node appended for the i-th plan step
EscrowOfStep(i) ==
  escrow_records[Cardinality({j \in 1..i : plan[j].max_mnee_cost > 0})]

\* C9: for every plan step with a nonzero cost ceiling whose tool the
\* executor has called, the step's escrow exists and its amount was locked
\* successfully before the call; no paid step runs after its lock failed.
C9_LockedBeforePaidStep ==
  \A i \in DOMAIN steps :
    (plan[i].max_mnee_cost > 0 /\ steps[i].error # "not_found")
      => escrows[EscrowOfStep(i)].lock_tx_hash # "none"

\* The risk assessment evaluate runs for the arguments of the last call
\* (it is reached only past the existence, active and access-list checks).
LastEvalRisk ==
  IF /\ lastEval.agent_id \in DOMAIN agents
     /\ lastEval.service_id \in DOMAIN services
     /\ services[lastEval.service_id].active
     /\ lastEval.agent_id \notin services[lastEval.service_id].blockedAgents
     /\ \/ services[lastEval.service_id].allowedAgents = {}
        \/ lastEval.agent_id \in services[lastEval.service_id].allowedAgents
    THEN assess_risk(lastEval.agent_id, lastEval.service_id, lastEval.estimated_cost,
                     agents[lastEval.agent_id].priority)
    ELSE "not_assessed"

\* C10: whenever the risk assessment inside evaluate returns RISK_BLOCK the
\* decision is DENY with approved quantity 0, whatever the remaining budget
\* and the max-per-call of the agent.
C10_RiskBlockForcesDeny ==
  LastEvalRisk = "RISK_BLOCK"
    => /\ lastEval.decision.action = "DENY"
       /\ lastEval.decision.approved_quantity = 0
       /\ lastEval.decision.risk_level = "RISK_BLOCK"

\* a burst blocked although the call fits the per-call ceiling and the budget
C10_Witness ==
  /\ lastEval.decision.action = "DENY"
  /\ LastEvalRisk = "RISK_BLOCK"
  /\ lastEval.estimated_cost > 0
  /\ lastEval.estimated_cost <= agents[lastEval.agent_id].maxPerCall
  /\ lastEval.estimated_cost <=
       agents[lastEval.agent_id].dailyBudget - currentDailySpend[lastEval.agent_id]

\* C11: in a burst of six calls of one agent within a minute whose combined
\* cost exceeds 10, each attempt recorded before the next evaluate, the
\* evaluate of the sixth call (five calls of the minute are on record)
\* returns DENY with RISK_BLOCK.
C11_SixthCallOfBurstBlocked ==
  (/\ LastEvalRisk # "not_assessed"
   /\ Len(recent_calls(lastEval.agent_id)) = BurstCalls
   /\ SumCost(recent_calls(lastEval.agent_id)) + lastEval.estimated_cost > BurstCost)
    => /\ lastEval.decision.action = "DENY"
       /\ lastEval.decision.risk_level = "RISK_BLOCK"

\* C12: raise_dispute is legal only from created, submitted or verifying:
\* called on a released or refunded escrow it is rejected and the status
\* stays released or refunded.
C12_DisputeOnTerminalRejected ==
  [][\A p \in Procs, e \in EscrowArgs :
       (Known(e) /\ Terminal(escrows[e]) /\ RaiseDispute(p, e, "reason"))
         => /\ eret' = Returned("raise_dispute", e, "ValueError")
            /\ escrows'[e].status = escrows[e].status]_vars

\* C13: once an escrow is disputed, submit_work and verify_and_release on it
\* are rejected without any transfer, and its status leaves disputed only
\* through resolve_dispute.
C13_DisputedIsFrozen ==
  [][\A e \in DOMAIN escrows :
       escrows[e].status = "disputed"
         => /\ \A p \in Procs, evidence \in {"cid", "data"} :
                 SubmitWork(p, e, evidence)
                   => /\ eret' = Returned("submit_work", e, "ValueError")
                      /\ UNCHANGED <<escrows, transfer_cache>>
            /\ \A p \in Procs, passed \in BOOLEAN :
                 VerifyCheck(p, e, IF passed THEN 100 ELSE 0, passed)
                   => /\ eret' = Returned("verify_and_release", e, "ValueError")
                      /\ UNCHANGED <<escrows, transfer_cache, epc, ecall>>
            /\ escrows'[e].status # "disputed"
                 => eret' = Returned("resolve_dispute", e, "ok")]_vars

\* C14: resolve_dispute is legal only from disputed: there it moves the
\* escrow to released when release_to_merchant is true and to refunded
\* otherwise; from any other status, or for an unknown escrow id, it is
\* rejected and nothing changes.
C14_ResolveOnlyFromDisputed ==
  [][\A p \in Procs, e \in EscrowArgs, release_to_merchant \in BOOLEAN :
       ResolveDispute(p, e, "resolution", release_to_merchant)
         => IF Known(e) /\ escrows[e].status = "disputed"
              THEN /\ eret' = Returned("resolve_dispute", e, "ok")
                   /\ escrows'[e].status =
                        IF release_to_merchant THEN "released" ELSE "refunded"
                   /\ \A f \in DOMAIN escrows : f # e => escrows'[f] = escrows[f]
              ELSE /\ eret' = Returned("resolve_dispute", e, "ValueError")
                   /\ UNCHANGED <<escrows, transfer_cache>>]_vars

\* a disputed escrow has just been resolved in the merchant's favour
C14_Witness ==
  /\ eret.op = "resolve_dispute"
  /\ eret.result = "ok"
  /\ Known(eret.escrow_id)
  /\ escrows[eret.escrow_id].status = "released"
  /\ escrows[eret.escrow_id].dispute_reason = "reason"
  /\ escrows[eret.escrow_id].dispute_resolution = "resolution"

\* the transfer a legal verify_and_release asks the transfer client for
SettlementTransfer(esc, passed) ==
  Transfer(EscrowHolding,
           IF passed THEN esc.merchant_agent ELSE esc.customer_agent,
           IF passed THEN esc.amount - esc.fee ELSE esc.amount)

\* C15: verify_and_release is legal only from submitted or verifying (from
\* created it is rejected with no transfer); a legal call that passed sets
\* released and makes one transfer of amount - fee, the fee being 1% of the
\* amount, from escrow-holding to the merchant; a legal call that did not
\* pass sets refunded and makes one transfer of the full amount to the
\* customer.  The transfer is the one the transfer client executes; the call
\* makes no other.
C15_VerifyAndReleaseSettles ==
  [][/\ \A p \in Procs, e \in EscrowArgs, passed \in BOOLEAN :
          (/\ Known(e)
           /\ escrows[e].status \notin {"submitted", "verifying"}
           /\ VerifyCheck(p, e, IF passed THEN 100 ELSE 0, passed))
            => /\ eret' = Returned("verify_and_release", e, "ValueError")
               /\ UNCHANGED <<escrows, transfer_cache, epc, ecall>>
     /\ \A p \in Procs :
          (VerifyMark(p) \/ VerifySettle(p)) => UNCHANGED transfer_cache
     /\ \A p \in Procs, outcome \in A2AOutcomes :
          VerifyTransfer(p, outcome)
            => LET e == ecall[p].escrow_id
                   passed == ecall[p].passed
               IN  /\ escrows'[e].status = IF passed THEN "released" ELSE "refunded"
                   /\ escrows[e].fee * 100 = escrows[e].amount
                   /\ transfer_cache' =
                        IF outcome = "ok"
                          THEN Append(transfer_cache, SettlementTransfer(escrows[e], passed))
                          ELSE transfer_cache]_vars

\* a submitted escrow of 1.0 has been released: 0.99 went to the merchant
C15_Witness ==
  /\ eret = Returned("verify_and_release", 1, "ok")
  /\ Known(1)
  /\ escrows[1].status = "released"
  /\ escrows[1].amount = 10000
  /\ escrows[1].fee = 100
  /\ Len(transfer_cache) > 0
  /\ transfer_cache[Len(transfer_cache)] =
       Transfer(EscrowHolding, escrows[1].merchant_agent, 9900)

\* C16: when the Guardian signals a block (an explicit BLOCK verdict or a
\* risk score of 8 or more) the task goes from the guardian to feedback, to
\* the summarizer and to its end: no escrow is created, no transfer is made
\* and no plan step is executed.
C16_GuardianBlockSkipsExecution ==
  [][/\ \A g \in GuardianOutcomes :
          (/\ g.kind = "decision"
           /\ (g.status = "BLOCK" \/ g.risk_score >= BlockScore)
           /\ Guardian(g))
            => guardian_block' /\ stage' = "feedback"
     /\ guardian_block'
          => /\ stage' \in {"feedback", "summarizer", "done"}
             /\ escrows' = <<>> /\ escrow_records' = <<>>
             /\ transfer_cache' = <<>>
             /\ steps' = <<>> /\ current_step_index' = 0
     /\ (guardian_block /\ stage = "feedback") => stage' = "summarizer"
     /\ (guardian_block /\ stage = "summarizer") => stage' = "done"]_vars

\* a blocked task with a paid step in its plan has reached its end
C16_Witness ==
  /\ guardian_block
  /\ stage = "done"
  /\ \E i \in DOMAIN plan : plan[i].max_mnee_cost > 0
  /\ escrows = <<>>
  /\ transfer_cache = <<>>
  /\ steps = <<>>

\* C17: when the Guardian's evaluation itself errors (its chain fails, or
\* the call of the node fails) the task goes from the guardian to feedback
\* directly; neither the escrow lock nor the executor is entered.
C17_GuardianErrorGoesToFeedback ==
  [][\A g \in GuardianOutcomes :
       (g.kind \in {"chain_error", "raise"} /\ Guardian(g))
         => stage' = "feedback"]_vars

\* C18: when a plan step is denied by policy at charge time the executor
\* sets early exit and stops: the task goes from the executor to feedback
\* without entering the verifier, and from then on no step record is added,
\* no delegation fee is transferred and the step index does not move, so no
\* later plan step is executed.
C18_DeniedStepStopsExecution ==
  [][/\ \A a2a \in A2AOutcomes :
          ExecuteStep(a2a, "Policy Rejected")
            => /\ early_exit'
               /\ stage' = "feedback"
               /\ steps'[Len(steps')].status = "denied"
     /\ early_exit
          => /\ stage \in {"feedback", "summarizer", "done"}
             /\ stage' \in {"summarizer", "done"}
             /\ UNCHANGED <<steps, transfer_cache, current_step_index>>]_vars

\* the first step of a two-step plan was denied and the task has ended with
\* that one step record
C18_Witness ==
  /\ early_exit
  /\ stage = "done"
  /\ Len(plan) = 2
  /\ Len(steps) = 1
  /\ steps[1].status = "denied"
  /\ current_step_index = 0

\* C19: on early exit the escrow settlement stage is skipped: from the end
\* of the escrow lock stage to the end of the task no escrow of the task
\* changes, so each is as create_escrow left it (never submitted, verified,
\* released or refunded) and no transfer leaves the escrow holding account.
C19_EarlyExitLeavesEscrowsLocked ==
  [][(stage = "executor" \/ early_exit)
       => /\ UNCHANGED escrows
          /\ stage' # "escrow_release"
          /\ early_exit'
               => /\ SettlementTransfers' = {}
                  /\ \A i \in DOMAIN escrows' :
                       /\ escrows'[i].status \in {"created", "failed"}
                       /\ escrows'[i].work_ipfs_cid = "none"
                       /\ escrows'[i].release_tx_hash = "none"
                       /\ ~escrows'[i].submitted_at
                       /\ ~escrows'[i].verified_at
                       /\ ~escrows'[i].released_at]_vars

\* a task with two locked escrows ended on early exit: its first step
\* succeeded, its second was denied, and both escrows are still locked
C19_Witness ==
  /\ early_exit
  /\ stage = "done"
  /\ Len(escrows) = 2
  /\ Len(steps) = 2
  /\ steps[1].status = "success"
  /\ steps[2].status = "denied"
  /\ \A i \in DOMAIN escrows :
       escrows[i].status = "created" /\ escrows[i].lock_tx_hash = "tx"

\* C20: a failure local to one step (tool not found, tool exception,
\* payment or signer failure) is captured as that step's StepRecord with
\* status failed and the executor proceeds to the next plan step; only a
\* policy denial stops the remaining steps: every pass over a plan step adds
\* its StepRecord and, unless that record is denied, moves on to the next.
C20_StepFailureDoesNotStopTask ==
  [][(stage = "executor" /\ current_step_index < Len(plan))
       => /\ Len(steps') = Len(steps) + 1
          /\ IF steps'[Len(steps')].status = "denied"
               THEN stage' = "feedback"
               ELSE /\ stage' = "executor"
                    /\ current_step_index' = current_step_index + 1
          /\ \A a2a \in A2AOutcomes, tool \in {"not_found", "raise", "error"} :
               ExecuteStep(a2a, tool) => steps'[Len(steps')].status = "failed"]_vars

\* a wrapper that reports every failed payment as a policy rejection
executor_sees_rejection_on_failure(result) ==
  IF result \in {"Policy Rejected", "Payment Failed"} THEN "Policy Rejected"
  ELSE IF result = "Tool Execution Failed" THEN "error"
  ELSE "valid"

\* what executor_node gets from a wrapped tool: the wrapper's error dicts
\* carry an "error" entry, "Policy Rejected" for a denial; a provider result
\* is passed on as it is
executor_sees(result) ==
  IF result = "Policy Rejected" THEN "Policy Rejected"
  ELSE IF result \in {"Payment Failed", "Tool Execution Failed"} THEN "error"
  ELSE "valid"

\* executor_node: the record that makes the node return with early_exit
sets_early_exit(record) == record.status = "denied"

\* C21: a step is marked denied, and triggers early exit, exactly when the
\* policy engine's decision for its charge was DENY; a signer or transfer
\* failure (quote rejected, pay failed) marks the step failed and never
\* triggers early exit.
C21_DeniedExactlyOnPolicyDeny ==
  \A w \in Workers :
    (pc[w] = "idle" /\ call[w] # NoCall)
      => LET record == StepRecordOf(Design, executor_sees(call[w].result), "none")
         IN  /\ record.status = "denied" <=> decisions[w].action = "DENY"
             /\ sets_early_exit(record) <=> decisions[w].action = "DENY"
             /\ call[w].result = "Payment Failed"
                  => /\ decisions[w].action \in {"ALLOW", "DOWNGRADE"}
                     /\ record.status = "failed"
                     /\ ~sets_early_exit(record)

\* one attempt ended in a policy denial and another in a signer failure
C21_Witness ==
  /\ pc["w1"] = "idle" /\ pc["w2"] = "idle"
  /\ \E w \in Workers : call[w].result = "Policy Rejected" /\ decisions[w].action = "DENY"
  /\ \E w \in Workers : call[w].result = "Payment Failed" /\ decisions[w].action = "ALLOW"

NoResult == [success |-> FALSE, error |-> "none", final_answer |-> "none", steps |-> <<>>]

\* a task boundary that reports a run ended by an exception like a finished one
InvokeResult_hiding_errors ==
  IF stage \in {"done", "failed"}
    THEN [success |-> TRUE, error |-> "none",
          final_answer |-> "final_answer", steps |-> steps]
    ELSE NoResult

\* OmniAgentGraph.invoke: what the call returns once the graph has ended, by
\* its last node or by an exception leaving a node (stage "failed")
InvokeResult ==
  IF stage = "done"
    THEN [success |-> \E i \in DOMAIN steps : steps[i].status = "success",
          error |-> "none", final_answer |-> "final_answer", steps |-> steps]
  ELSE IF stage = "failed"
    THEN [success |-> FALSE, error |-> "str(e)",
          final_answer |-> "Execution failed: str(e)", steps |-> <<>>]
  ELSE NoResult

\* C22: an exception raised inside a stage of a task and not handled there
\* is caught at the task boundary: the task ends, nothing further runs for
\* it, and it returns a failed summary (success false, with the error text);
\* the exception leaves the engine, the escrows and the transfers, which
\* other tasks share, as they were.
C22_ExceptionEndsTaskAsFailed ==
  [][/\ \A g \in GuardianOutcomes :
          (g.kind = "raise" /\ Guardian(g))
            => stage' = "failed" /\ UNCHANGED <<payVars, escrowVars>>
     /\ ExecuteLookupRaises
          => stage' = "failed" /\ UNCHANGED <<payVars, escrowVars>>
     /\ stage' = "failed"
          => /\ ~InvokeResult'.success
             /\ InvokeResult'.error = "str(e)"
             /\ InvokeResult'.final_answer = "Execution failed: str(e)"
     /\ stage = "failed" => UNCHANGED vars]_vars

\* a task ended by an exception in its executor, after its escrow was locked
C22_Witness ==
  /\ stage = "failed"
  /\ current_step_index = 0
  /\ Len(escrows) = 1
  /\ ~InvokeResult.success
  /\ InvokeResult.error = "str(e)"

\* C23: pay_for_service runs policy evaluation, then quote, then pay, then
\* usage recording: the quote is asked only after a decision of ALLOW or
\* DOWNGRADE and never after DENY, pay is asked only after the quote
\* answered can-pay, usage is recorded only by a successful pay, and an
\* attempt that ends in a denial or a payment failure leaves the agent's
\* spend counters as they were.
C23_PayForServiceSequence ==
  [][\A w \in Workers :
       /\ (pc[w] = "idle" /\ pc'[w] # "idle")
            => /\ pc'[w] = "quote"
               /\ decisions'[w].action \in {"ALLOW", "DOWNGRADE"}
       /\ (pc[w] = "idle" /\ ncalls' = ncalls + 1 /\ decisions'[w].action = "DENY")
            => /\ pc'[w] = "idle"
               /\ call'[w].result = "Policy Rejected"
       /\ (pc[w] # "pay" /\ pc'[w] = "pay")
            => /\ Quote(w, TRUE)
               /\ decisions[w].action \in {"ALLOW", "DOWNGRADE"}
       /\ (pc[w] # "tool" /\ pc'[w] = "tool") => Pay(w, TRUE)
       /\ daily_spending' # daily_spending
            => \E v \in Workers :
                 /\ Pay(v, TRUE)
                 /\ daily_spending'[call[v].agent_id] =
                      daily_spending[call[v].agent_id] + call[v].estimated_cost
       /\ (call'[w] # call[w] /\ call'[w].result \in {"Policy Rejected", "Payment Failed"})
            => UNCHANGED <<currentDailySpend, daily_spending>>]_vars

\* a downgraded charge was quoted, paid and recorded, after an attempt of
\* the same agent had failed without being charged
C23_Witness ==
  /\ pc[SeqWorker] = "tool"
  /\ decisions[SeqWorker].action = "DOWNGRADE"
  /\ daily_spending["a1"] = call[SeqWorker].estimated_cost
  /\ Len(call_history) >= 1
  /\ ~call_history[1].success

\* the checks of evaluate in the order the engine documents, each named as
\* the decisions name the rule that made them
RuleOrder ==
  <<"agent", "service", "inactive", "blocked", "not_allowed", "risk",
    "maxPerCall", "dailyBudget", "approved">>

\* whether a check applies to the arguments of the last evaluate, taken on
\* its own; the checks past existence read the agent's and service's entries
RuleMatches(rule) ==
  LET a == lastEval.agent_id
      s == lastEval.service_id
      known == a \in DOMAIN agents /\ s \in DOMAIN services
  IN  CASE rule = "agent" -> a \notin DOMAIN agents
        [] rule = "service" -> s \notin DOMAIN services
        [] rule = "inactive" -> known /\ ~services[s].active
        [] rule = "blocked" -> known /\ a \in services[s].blockedAgents
        [] rule = "not_allowed" ->
             known /\ services[s].allowedAgents # {} /\ a \notin services[s].allowedAgents
        [] rule = "risk" ->
             known /\ assess_risk(a, s, lastEval.estimated_cost, agents[a].priority)
                        = "RISK_BLOCK"
        [] rule = "maxPerCall" -> known /\ lastEval.estimated_cost > agents[a].maxPerCall
        [] rule = "dailyBudget" ->
             known /\ lastEval.estimated_cost > agents[a].dailyBudget - currentDailySpend[a]
        [] OTHER -> TRUE

\* the first check of the order that applies
FirstMatch ==
  RuleOrder[CHOOSE i \in DOMAIN RuleOrder :
              /\ RuleMatches(RuleOrder[i])
              /\ \A j \in 1..(i - 1) : ~RuleMatches(RuleOrder[j])]

\* C24: evaluate applies its checks in the order existence, service active,
\* allow and block lists, risk, per-call ceiling, daily budget, and the first
\* check that applies alone determines the decision: an existence, active or
\* list check denies with RISK_OK, the risk check denies with RISK_BLOCK,
\* the per-call and budget checks downgrade or deny, and otherwise the call
\* is allowed.
C24_FirstMatchingCheckDecides ==
  lastEval # NoEval
    => LET d == lastEval.decision
       IN  /\ d.rule = FirstMatch
           /\ d.rule \in {"agent", "service", "inactive", "blocked", "not_allowed"}
                => d.action = "DENY" /\ d.risk_level = "RISK_OK" /\ d.approved_quantity = 0
           /\ d.rule = "risk"
                => d.action = "DENY" /\ d.risk_level = "RISK_BLOCK" /\ d.approved_quantity = 0
           /\ d.rule \in {"maxPerCall", "dailyBudget"}
                => /\ d.action \in {"DOWNGRADE", "DENY"}
                   /\ d.risk_level # "RISK_BLOCK"
                   /\ d.action = "DENY" <=> d.approved_quantity = 0
           /\ d.rule = "approved"
                => d.action = "ALLOW" /\ d.approved_quantity = lastEval.quantity

\* a block-listed agent in a burst, asking for more than its per-call
\* ceiling and its remaining budget, is denied for access with RISK_OK
C24_Witness ==
  /\ lastEval.decision.rule = "blocked"
  /\ lastEval.decision.risk_level = "RISK_OK"
  /\ RuleMatches("risk")
  /\ RuleMatches("maxPerCall")
  /\ RuleMatches("dailyBudget")

\* C25: downgrade arithmetic.  For a call that reaches the budget checks: a
\* cost within max-per-call that exceeds the remaining daily budget is
\* downgraded to floor(remaining / unitPrice) if that floor is at least 1
\* and denied if it is 0; a cost above max-per-call is downgraded to
\* floor(maxPerCall / unitPrice), and denied if that is 0.
C25_DowngradeArithmetic ==
  (lastEval # NoEval /\ FirstMatch \in {"maxPerCall", "dailyBudget", "approved"})
    => LET d == lastEval.decision
           agent == agents[lastEval.agent_id]
           unitPrice == services[lastEval.service_id].unitPrice
           remaining == agent.dailyBudget - currentDailySpend[lastEval.agent_id]
           Approves(floor) ==
             /\ floor >= 1 => d.action = "DOWNGRADE" /\ d.approved_quantity = floor
             /\ floor = 0 => d.action = "DENY" /\ d.approved_quantity = 0
       IN  /\ (lastEval.estimated_cost <= agent.maxPerCall
               /\ lastEval.estimated_cost > remaining)
                => Approves(remaining \div unitPrice)
           /\ lastEval.estimated_cost > agent.maxPerCall
                => Approves(agent.maxPerCall \div unitPrice)

\* remaining budget 3 at unit price 2: a cost of 4, within max-per-call, is
\* downgraded to quantity 1
C25_Witness ==
  /\ lastEval.decision.action = "DOWNGRADE"
  /\ lastEval.decision.rule = "dailyBudget"
  /\ lastEval.decision.approved_quantity = 1
  /\ services[lastEval.service_id].unitPrice = 2
  /\ agents[lastEval.agent_id].dailyBudget - currentDailySpend[lastEval.agent_id] = 3
  /\ lastEval.estimated_cost = 4

\* C26: record_call_result is invoked exactly once after every paid-tool
\* attempt, whatever its outcome (policy denial, signer failure, tool
\* success, tool exception): the step that ends an attempt appends one entry
\* for it to the rolling call history, no other step touches the history,
\* and while nothing is older than the window the history has one entry per
\* ended attempt.
C26_OneHistoryEntryPerAttempt ==
  [][LET Ends(w) == pc[w] # "idle" /\ pc'[w] = "idle"
         DeniedAtOnce == ncalls' = ncalls + 1 /\ pc' = pc
         Entry(w) == [agent_id |-> call'[w].agent_id, service_id |-> call'[w].service_id,
                      cost |-> IF call'[w].result \in {"Policy Rejected", "Payment Failed"}
                                 THEN CostPerCall ELSE call'[w].estimated_cost,
                      timestamp |-> now, success |-> call'[w].result = "ok"]
         Recorded(w) == call_history' =
                          SelectSeq(Append(call_history, Entry(w)),
                                    LAMBDA c : c.timestamp > now - HourWindow)
     IN  /\ \A w \in Workers :
              Ends(w)
                => /\ call'[w].result \in {"Payment Failed", "Tool Execution Failed", "ok"}
                   /\ Recorded(w)
         /\ DeniedAtOnce
              => \E w \in Workers :
                   /\ pc[w] = "idle"
                   /\ call'[w].result = "Policy Rejected"
                   /\ Recorded(w)
         /\ (~DeniedAtOnce /\ \A w \in Workers : ~Ends(w)) => call_history' = call_history
         /\ now' < HourWindow
              => Len(call_history') = ncalls' - Cardinality({w \in Workers : pc'[w] # "idle"})]_vars

\* four attempts have ended, one in each way, and four entries are on record
C26_Witness ==
  /\ AllIdle
  /\ ncalls = 4
  /\ Len(call_history) = 4
  /\ call[SeqWorker].result = "Policy Rejected"
  /\ \E i, j, k \in DOMAIN call_history :
       /\ call_history[i].success
       /\ ~call_history[j].success /\ call_history[j].cost = CostPerCall
       /\ ~call_history[k].success /\ call_history[k].cost > CostPerCall

\* C27: build_service_call_hash is deterministic and binding: two calls with
\* the same service, agent and task ids and payloads that are equal as maps
\* give the same hash, and two calls that differ in any one of the four
\* inputs give different strings to hash.
C27_HashDeterministicAndBinding ==
  (call["w1"] # NoCall /\ call["w2"] # NoCall)
    => LET c1 == call["w1"]
           c2 == call["w2"]
           Items(payload_dict) == {payload_dict[i] : i \in DOMAIN payload_dict}
           SameInputs == /\ c1.service_id = c2.service_id
                         /\ c1.agent_id = c2.agent_id
                         /\ c1.task_id = c2.task_id
                         /\ Items(c1.payload_dict) = Items(c2.payload_dict)
       IN  SameInputs <=> c1.service_call_hash = c2.service_call_hash

\* C28: verification funnel.  The local layer judges every verified output
\* first; an empty or error-bearing output gets a local score of at most 0.1
\* and fails at the local layer without escalation; the AI-network layer
\* gives the result exactly when the local layer did not pass with a score
\* of at least 0.3; an output whose local score is at least 0.7 passes at
\* the local layer; no result has the oracle layer.
C28_VerificationFunnel ==
  \A i \in DOMAIN steps :
    steps[i].verification # NoVerification
      => LET v == steps[i].verification
             output == steps[i].output
             local == local_verify(steps[i].tool_name, output)
         IN  /\ v.layer \in {"local", "ai_network"}
             /\ local.layer = "local"
             /\ (OutputEmpty(output) \/ HasErrorEntry(output) \/ output = "_error")
                  => v = local /\ ~v.passed /\ v.score <= 10
             /\ v.layer = "ai_network" <=> (~local.passed /\ local.score >= 30)
             /\ v.layer = "local" => v = local
             /\ local.score >= 70 => v = local /\ v.passed

\* one output was escalated from a local score of 0.3 and passed at the
\* network layer, another carried an error and failed at the local layer
C28_Witness ==
  \E i, j \in DOMAIN steps :
    /\ steps[i].verification = VerificationResult(TRUE, 85, "ai_network")
    /\ local_verify(steps[i].tool_name, steps[i].output).score = 30
    /\ steps[j].verification = VerificationResult(FALSE, 10, "local")

PaymentMetadata(amount) ==
  [k \in {"_payment_tx", "_payment_id", "_service_call_hash", "_task_id",
          "_policy_decision", "_risk_level", "_amount"}
     |-> IF k = "_amount" THEN amount ELSE 0]

\* summarizer_node: the total of its financial summary, get_step_amount of
\* every successful step.  A step's output dict carries the wrapper's entries
\* when the step was a paid call that returned a result of its own; the amount
\* charged is the service's price, the cost _keyword_plan gives the step
total_spent ==
  LET output(i) ==
        IF /\ steps[i].status = "success"
           /\ steps[i].tool_name # "respond"
           /\ steps[i].output # "empty"
          THEN PaymentMetadata(plan[i].max_mnee_cost)
          ELSE << >>
      get_step_amount(i) ==
        IF "amount_mnee" \in DOMAIN output(i) THEN output(i)["amount_mnee"] ELSE 0
      sum[i \in 0..Len(steps)] ==
        IF i = 0 THEN 0
        ELSE sum[i - 1] + (IF steps[i].status = "success" THEN get_step_amount(i) ELSE 0)
  IN  sum[Len(steps)]

\* C30: the total spent of the final summary is the sum of the amounts charged
\* for the task's successful steps: one successful step charged 1.0 gives a
\* summary with total spent 1.0.
C30_SummaryTotalIsSumOfCharges ==
  stage = "done"
    => LET charged(i) ==
             IF /\ steps[i].status = "success"
                /\ steps[i].tool_name # "respond"
                /\ steps[i].output # "empty"
               THEN plan[i].max_mnee_cost
               ELSE 0
           sum[i \in 0..Len(steps)] ==
             IF i = 0 THEN 0 ELSE sum[i - 1] + charged(i)
       IN  total_spent = sum[Len(steps)]

\* C31: the provider function of a wrapped paid tool is called only after
\* pay_for_service returned success for that same call: a call reaches the
\* provider call only by a /guardian/pay that succeeded, and a call that was
\* denied by the policy, rejected at the quote or failed at the payment
\* returns its error without the provider function having run.
C31_ProviderCalledOnlyAfterPayment ==
  [][\A w \in Workers :
       /\ (pc'[w] = "tool" /\ pc[w] # "tool")
            => /\ pc[w] = "pay"
               /\ call[w].result = "pending"
               /\ decisions[w].action # "DENY"
       /\ \A success \in BOOLEAN :
            Pay(w, success) => (pc'[w] = "tool" <=> success)
       /\ (pc[w] # "idle" /\ pc'[w] = "idle" /\ pc[w] # "tool")
            => call'[w].result = "Payment Failed"
       /\ (call'[w].result \in {"ok", "Tool Execution Failed"} /\ call'[w] # call[w])
            => pc[w] = "tool"
       /\ (call'[w].result = "Policy Rejected" /\ call'[w] # call[w])
            => pc[w] = "idle" /\ pc'[w] = "idle"]_vars

\* one call ran its provider function after its payment, the other failed
\* at the payment and returned without it
C31_Witness ==
  /\ pc["w1"] = "idle" /\ pc["w2"] = "idle"
  /\ call["w1"].result = "ok"
  /\ call["w2"].result = "Payment Failed"
  /\ decisions["w2"].action # "DENY"
  /\ daily_spending[call["w1"].agent_id] = call["w1"].estimated_cost

C33_StepStatusNeverChanges ==
  [][/\ Len(steps') >= Len(steps)
     /\ \A i \in DOMAIN steps :
          /\ steps[i].status \in {"success", "failed", "denied"}
          /\ steps'[i].status = steps[i].status
          /\ steps'[i].step_id = steps[i].step_id
     /\ \A i \in DOMAIN steps' : steps'[i].status \in {"success", "failed", "denied"}
     /\ VerifyStep
          => /\ Len(steps') = Len(steps)
             /\ steps[node_index].status # "denied"
                  => /\ steps'[node_index].verification # NoVerification
                     /\ steps'[node_index].status = steps[node_index].status]_vars

\* a successful step whose verification did not pass is still a success when
\* the task is done
C33_Witness ==
  /\ stage = "done"
  /\ \E i \in DOMAIN steps :
       /\ steps[i].status = "success"
       /\ steps[i].verification # NoVerification
       /\ ~steps[i].verification.passed

\* C34: record_call calls made in parallel lose nothing: once n calls have
\* completed within the window the rolling history holds n entries and the failure counter of a provider is the number of failed calls
\* made for it.
C34_NoRecordedCallLost ==
  (\A w \in Workers : pc[w] = "idle")
    => /\ Len(call_history) = ncalls
       /\ \A s \in ServiceIds :
            provider_failure_counts[s] =
              Cardinality({w \in Workers : /\ call[w] # NoCall
                                           /\ call[w].service_id = s
                                           /\ ~call[w].success})

\* C35: the quantity the client sends to /guardian/pay never exceeds the
\* max_quantity the signer returned in its quote for that call, and the
\* signer never executes a payment for a quantity above its hard per-call
\* ceiling of 1000.
C35_PaidQuantityWithinQuote ==
  \A w \in Workers :
    call[w] # NoCall
      => /\ pc[w] = "pay" => call[w].quantity <= call[w].max_quantity
         /\ call[w].paid_quantity <= call[w].max_quantity
         /\ call[w].paid_quantity <= MaxQuantityPerCall

\* C36: each escrow is settled by the outcome of the plan step it was locked
\* for, also when two steps of the plan have the same executing agent: the
\* escrow of a step is released only if that step ended success, and the
\* escrow of a failed step is, once settled, refunded.
C36_EscrowSettledByItsOwnStep ==
  \A i \in DOMAIN steps :
    plan[i].max_mnee_cost > 0
      => LET esc == escrows[EscrowOfStep(i)]
         IN  /\ esc.merchant_agent = steps[i].agent_id
             /\ esc.status = "released" => steps[i].status = "success"
             /\ (steps[i].status = "failed" /\ esc.status \in {"released", "refunded"})
                  => esc.status = "refunded"

\* C37: once the call that settled it has returned, an escrow is in status
\* released only if a transfer of its amount less the fee to its merchant
\* succeeded, and in status refunded only if a transfer of its full amount
\* to its customer succeeded, whether verify_and_release or resolve_dispute
\* set the status.
C37_SettledOnlyWithTransfer ==
  AllEscrowIdle
    => \A e \in DOMAIN escrows :
         LET esc == escrows[e]
         IN  /\ esc.status = "released"
                  => \E i \in DOMAIN transfer_cache :
                       transfer_cache[i] =
                         Transfer(EscrowHolding, esc.merchant_agent, esc.amount - esc.fee)
             /\ esc.status = "refunded"
                  => \E i \in DOMAIN transfer_cache :
                       transfer_cache[i] =
                         Transfer(EscrowHolding, esc.customer_agent, esc.amount)

\* C38: the settlement stage never aborts the task: whatever statuses the
\* escrows of the task have when it runs, an escrow whose lock failed or one
\* disputed through the API during execution included, every iteration of
\* its loop completes without raising and the loop goes on to the task's
\* other escrows.
C38_SettlementNeverAborts ==
  [][\A outcome \in A2AOutcomes :
       SettleStep(outcome)
         => /\ stage' = "escrow_release"
            /\ node_index' = node_index + 1]_vars

PaymentResult(outcome, decision) ==
  IF outcome = "denied"
    THEN [success |-> FALSE, policy_action |-> "DENY", risk_level |-> decision.risk_level]
  ELSE IF outcome = "failed"
    THEN [success |-> FALSE, policy_action |-> "ALLOW", risk_level |-> "RISK_OK"]
  ELSE [success |-> TRUE, policy_action |-> "ALLOW", risk_level |-> "RISK_OK"]

\* C40: the result of a successful pay_for_service reports the policy action
\* and the risk level of the PolicyDecision that admitted the charge: a
\* charge admitted as DOWNGRADE is reported as DOWNGRADE and one admitted
\* with RISK_REVIEW as RISK_REVIEW.
C40_ResultReportsAdmittingDecision ==
  \A w \in Workers :
    pc[w] = "tool"
      => LET result == PaymentResult("paid", decisions[w])
         IN  /\ result.success
             /\ result.policy_action = decisions[w].action
             /\ result.risk_level = decisions[w].risk_level

====
